---- MODULE Spec2Model ----
(***************************************************************************)
(* Model of the Revidyne operator console (src/app.js, USBDeviceManager)    *)
(* and its device library (src/unnamed/part_000: SerialCommander,           *)
(* BaseDevice, AllDevice).                                                  *)
(*                                                                          *)
(* The browser runs one cooperative scheduler.  One action of this module   *)
(* is one macrotask: an event handler or the continuation of an await that  *)
(* was waiting for a write, a timer or a read.  Promise reactions           *)
(* (microtasks) run to completion inside the macrotask that triggered them, *)
(* so a queued task whose predecessor has settled starts in the same        *)
(* action (Drain).                                                          *)
(*                                                                          *)
(* Strings the code inspects character by character (command names,         *)
(* response lines) are sequences of one-character strings.                  *)
(***************************************************************************)
EXTENDS Integers, Sequences, FiniteSets, TLC

\* ------------------------------------------------------------------ bounds
MaxDevices == 3
MaxCalls == 2
MaxSweeps == 1
MaxOverlap == 2
MaxPollCalls == 1
MaxPrefix == 2
MaxStored == 3
MaxEvals == 3
MaxFilterCalls == 6

\* ------------------------------------------------------- program constants
defaultCommandTimeoutMs == 3000
ReadTimeoutMs == 2000
LogMax == 500
VoltsMax == 1000
KwMax == 1000

\* ------------------------------------------------------------------ strings
Upper == <<"A","B","C","D","E","F","G","H","I","J","K","L","M",
           "N","O","P","Q","R","S","T","U","V","W","X","Y","Z">>
Lower == <<"a","b","c","d","e","f","g","h","i","j","k","l","m",
           "n","o","p","q","r","s","t","u","v","w","x","y","z">>

ToLowerChar(c) ==
    IF \E k \in 1..26 : Upper[k] = c
    THEN Lower[CHOOSE k \in 1..26 : Upper[k] = c]
    ELSE c

ToLowerCase(s) == [k \in 1..Len(s) |-> ToLowerChar(s[k])]

StartsWith(s, p) == Len(s) >= Len(p) /\ SubSeq(s, 1, Len(p)) = p

\* command names used as inputs
setLoad == <<"s","e","t","L","o","a","d">>
SetLoadCap == <<"S","e","t","L","o","a","d">>
getKW == <<"g","e","t","K","W">>
CmdNames == {setLoad, SetLoadCap, getKW}

\* lines a device may answer with; Blank is readResponse's '' after its own timeout
Blank == <<>>
Line12 == <<"1","2">>
DeviceLines == {Line12}

\* options.args: absent, or an explicit list of argument lines
NoArgs == [given |-> FALSE, list |-> <<>>]
Args5 == [given |-> TRUE, list |-> << <<"5">> >>]

\* what the operator does when window.prompt opens: Cancel, or a text, kept as
\* the words raw.trim().split(/\s+/) yields
ReplyCancel == [cancelled |-> TRUE, words |-> <<>>]
ReplyEmpty == [cancelled |-> FALSE, words |-> <<>>]
Reply5 == [cancelled |-> FALSE, words |-> << <<"5">> >>]
Replies == {ReplyCancel, ReplyEmpty, Reply5}

\* ------------------------------------------------------------------ catalogs
\* Cmd(name, inArg, outArg)
Cmd(inArg, outArg) == [inArg |-> inArg, outArg |-> outArg]

\* identifyDevice: a recognised board gets the hardcoded list, every entry (0,0)
KnownCatalog == [n \in {setLoad, getKW} |-> Cmd(0, 0)]

\* identifyDevice: any other board runs setupCommands; this firmware announced
\* the signatures setLoad>1<1 and getKW>1
FirmwareCatalog == [n \in {setLoad, getKW} |->
                      IF n = setLoad THEN Cmd(1, 1) ELSE Cmd(0, 1)]

Catalogs == {KnownCatalog, FirmwareCatalog}

DeviceIds == 0..(MaxDevices - 1)

\* ------------------------------------------------------------------ state
VARIABLES
    availableDevices,   \* ids in the "available" Map, in insertion order
    connectedDevices,   \* ids in the "connected" Map, in insertion order
    deviceIdCounter,    \* next id handed out by scanDevices
    cmds,               \* id -> revidyneDevice.cmds
    lastCommand,        \* id -> device.lastCommand
    lastStatus,         \* id -> device.lastStatus
    safeModeEnabled,    \* the Demo/Safe Mode flag
    resultModal,        \* the page has the result modal showCommandResult fills
    deviceQueues,       \* id -> tail promise of the device's chain (partial)
    calls,              \* every executeCommand / enqueueDeviceCommand invocation
    orphans,            \* transport work abandoned by a deadline, still running
    commandLog,         \* the command log
    out,                \* id -> lines written to the device's writer
    inp,                \* id -> readResponse calls completed on the device
    metricsIntervalId,  \* the polling timer is set
    sweeps,             \* refreshLiveMetrics invocations
    metrics,            \* id -> stored telemetry sample (partial)
    \* BaseDevice.getCommands / setupCommands on one board
    gcScript,           \* what the board answers: see Scripts
    gcPos,              \* readResponse calls completed so far
    gcPc,               \* "idle", "read" (a readResponse is pending), "setup", "done"
    gcLines,            \* getCommands: lines
    gcBlankStreak,      \* getCommands: blankStreak
    gcNow,              \* Date.now() - start, in ms
    gcOut,              \* lines written to the board's writer
    gcIn,               \* what the completed readResponse calls returned
    gcSetupAt,          \* setupCommands: lines of raw its loop has been through
    gcCmds,             \* the board's cmds
    \* one turn of the loop of refreshLiveMetrics, on a board with telemetry commands
    tmCaps,             \* getTelemetryCapabilities: the telemetry commands it has
    tmPc,               \* 0 before the turn, k: safeCall number k is next, then stored
    tmResp,             \* what the safeCalls made so far returned
    \* the connection diagram and Mode 2
    devName,            \* id -> device.name, as identifyDevice recognised the board
    powerEst,           \* id -> computeEstimatedKW(device, null).kw
    connections,        \* this.connections: edges [fromId, toId, kw]
    connStored,         \* localStorage[connKey], what saveConnections wrote last
    connPendingFrom,    \* the provider block selected for a connection, "" if none
    connLoaded,         \* the list loadConnections returned when the page was loaded
    mode2,              \* _connMode2InFlight, _connMode2LastApplied and the status line
    \* the estimates the metrics table shows, and the inputs the operator types
    autoEst,            \* autoEstEnabled, autoEstDemandKW, ... and what inferDemandKW returned
    estimated,          \* one computeEstimatedKW call: its arguments and what it returned
    metricsPaused,      \* the Pause button of the metrics panel is pressed in
    metricsHistory,     \* deviceId -> { volts: [], kw: [] }, the values the filter accepted
    filtered,           \* the last filterMetricValue call: its arguments and what it returned
    lastInput           \* the value the operator gave last, to which handler, and its toast

vars == <<availableDevices, connectedDevices, deviceIdCounter, cmds, lastCommand,
          lastStatus, safeModeEnabled, resultModal, deviceQueues, calls, orphans,
          commandLog, out, inp, metricsIntervalId, sweeps, metrics,
          gcScript, gcPos, gcPc, gcLines, gcBlankStreak, gcNow, gcOut, gcIn,
          gcSetupAt, gcCmds, tmCaps, tmPc, tmResp,
          devName, powerEst, connections, connStored, connPendingFrom, connLoaded, mode2,
          autoEst, estimated, metricsPaused, metricsHistory, filtered, lastInput>>

\* the variables of discovery, which the manager's handlers leave alone
discovery == <<gcScript, gcPos, gcPc, gcLines, gcBlankStreak, gcNow, gcOut, gcIn,
          gcSetupAt, gcCmds>>

\* the variables of the estimates and of the operator's rejected inputs
estimate == <<autoEst, estimated, metricsPaused, metricsHistory, filtered, lastInput>>

\* the Pause button and the outlier filter of the metrics panel
panel == <<metricsPaused, metricsHistory, filtered>>

\* the variables of the telemetry turn, and the estimates shown next to it
telemetry == <<tmCaps, tmPc, tmResp, estimate>>

\* the variables of the connection diagram
graph == <<devName, powerEst, connections, connStored, connPendingFrom, connLoaded, mode2>>

\* what the handlers of the manager leave alone
others == <<discovery, telemetry, graph>>

registry == <<availableDevices, connectedDevices, deviceIdCounter, cmds>>

\* the variables of the manager's command pipeline and poller
manager == <<registry, lastCommand, lastStatus, safeModeEnabled, resultModal,
             deviceQueues, calls, orphans, commandLog, out, inp, metricsIntervalId,
             sweeps, metrics>>

Settled == {"fulfilled", "rejected"}

\* a JavaScript Map's keys: a sequence without repetition, in insertion order
Has(m, id) == \E k \in 1..Len(m) : m[k] = id
MapDelete(m, id) == SelectSeq(m, LAMBDA x : x # id)
MapSet(m, id) == IF Has(m, id) THEN m ELSE Append(m, id)

NoError == [kind |-> "", label |-> ""]
NoResult == [text |-> "", lines |-> <<>>]

\* ------------------------------------------------------------ device library
\* SerialCommander.sendCommand: one line handed to the writer.  by is the
\* invocation that wrote it (0: the telemetry sweep), cmd the command it belongs to.
SendCommand(o, d, line, by, cmd) ==
    [o EXCEPT ![d] = Append(@, [line |-> line, by |-> by, cmd |-> cmd])]

\* BaseDevice.call / readCmdMessage: what one call does on the transport.
\* sends: lines written; reads: readResponse calls; returnsData: an array comes back
CallPlanReadsOne(cat, cmdName) ==
    IF cmdName \notin DOMAIN cat
    THEN [sends |-> <<>>, reads |-> 0, returnsData |-> FALSE]
    ELSE [sends |-> <<cmdName>>,
          reads |-> IF cat[cmdName].inArg + cat[cmdName].outArg = 0
                    THEN 1 ELSE cat[cmdName].inArg + cat[cmdName].outArg,
          returnsData |-> TRUE]

CallPlan(cat, cmdName) ==
    IF cmdName \notin DOMAIN cat
    THEN [sends |-> <<>>, reads |-> 0, returnsData |-> FALSE]
    ELSE IF cat[cmdName].inArg = 0 /\ cat[cmdName].outArg = 0
    THEN [sends |-> <<cmdName>>, reads |-> 0, returnsData |-> FALSE]
    ELSE [sends |-> <<cmdName>>,
          reads |-> cat[cmdName].inArg + cat[cmdName].outArg,
          returnsData |-> TRUE]

\* ------------------------------------------------------------------ manager
\* ensureMetricsPolling / stopMetricsPolling as updateUI calls them
UpdateUI(w, conn) == [w EXCEPT !.metricsIntervalId = (Len(conn) > 0)]

AddCommandLog(log, entry) ==
    LET l == Append(log, entry)
    IN  IF Len(l) > LogMax THEN Tail(l) ELSE l

\* ---------------------------------------------------------------- telemetry
\* a JavaScript number or null; numbers are kept in thousandths
Null == [null |-> TRUE, milli |-> 0]
Num(milli) == [null |-> FALSE, milli |-> milli]

Digits == <<"0","1","2","3","4","5","6","7","8","9">>
IsDigit(c) == \E k \in 1..10 : Digits[k] = c
DigitVal(c) == (CHOOSE k \in 1..10 : Digits[k] = c) - 1

RECURSIVE DigitRunEnd(_, _)
DigitRunEnd(s, i) == IF i < Len(s) /\ IsDigit(s[i + 1]) THEN DigitRunEnd(s, i + 1) ELSE i

RECURSIVE DigitsValue(_, _, _)
DigitsValue(s, a, b) ==
    IF a > b THEN 0 ELSE DigitsValue(s, a, b - 1) * 10 + DigitVal(s[b])

RECURSIVE Pow10(_)
Pow10(n) == IF n <= 0 THEN 1 ELSE 10 * Pow10(n - 1)

\* s.match(/-?\d+(?:\.\d+)?/): the leftmost match, as a number
MatchNumber(s) ==
    LET starts == {i \in 1..Len(s) :
                      \/ IsDigit(s[i])
                      \/ (s[i] = "-" /\ i < Len(s) /\ IsDigit(s[i + 1]))}
    IN  IF starts = {} THEN Null
        ELSE LET i == CHOOSE x \in starts : \A y \in starts : x <= y
                 neg == s[i] = "-"
                 a == IF neg THEN i + 1 ELSE i
                 b == DigitRunEnd(s, a)
                 hasFrac == b + 2 <= Len(s) /\ s[b + 1] = "." /\ IsDigit(s[b + 2])
                 fe == IF hasFrac THEN DigitRunEnd(s, b + 2) ELSE b
                 n == IF hasFrac THEN fe - (b + 1) ELSE 0
                 frac == IF hasFrac THEN DigitsValue(s, b + 2, fe) ELSE 0
                 milli == DigitsValue(s, a, b) * 1000 +
                          (IF n <= 3 THEN frac * Pow10(3 - n) ELSE frac \div Pow10(n - 3))
             IN  Num(IF neg THEN 0 - milli ELSE milli)

\* a value a call returned: null, or an array of lines
NullResp == [isArray |-> FALSE, lines |-> <<>>]
ArrayResp(lines) == [isArray |-> TRUE, lines |-> lines]

\* parseFirstNumber: of an array, the first number of its first element
ParseFirstNumber(value) ==
    IF ~value.isArray THEN Null
    ELSE MatchNumber(IF Len(value.lines) > 0 THEN value.lines[1] ELSE <<>>)

\* sanitizeMetricNumber
SanitizeNoRange(field, value) == value

SanitizeMetricNumber(field, value) ==
    IF value.null THEN Null
    ELSE IF field = "volts" /\ (value.milli < 0 \/ value.milli > VoltsMax * 1000) THEN Null
    ELSE IF field = "kw" /\ (value.milli > KwMax * 1000 \/ 0 - value.milli > KwMax * 1000)
    THEN Null
    ELSE value

\* parseNumberAtLine: the first number of line lineIndex (from 0) of an array
ParseNumberAtLine(value, lineIndex) ==
    IF ~value.isArray THEN Null
    ELSE IF lineIndex < 0 \/ lineIndex >= Len(value.lines) THEN Null
    ELSE MatchNumber(value.lines[lineIndex + 1])

\* a ?? b
Coalesce(a, b) == IF a.null THEN b ELSE a

\* the telemetry commands refreshLiveMetrics calls, in the order it calls them
TelemetryCmds == <<"getAll", "getKW", "getVolts", "getVal", "getBV", "getCurrent">>

\* refreshLiveMetrics: the last line of allResp
LastLineNumber(allResp) ==
    IF allResp.isArray THEN ParseNumberAtLine(allResp, Len(allResp.lines) - 1) ELSE Null

\* refreshLiveMetrics: volts, from the responses in the order of TelemetryCmds
RawVolts(r) ==
    Coalesce(ParseFirstNumber(r[3]),
    Coalesce(ParseFirstNumber(r[4]),
    Coalesce(ParseNumberAtLine(r[5], 0),
    Coalesce(ParseFirstNumber(r[5]),
    Coalesce(LastLineNumber(r[1]), ParseFirstNumber(r[1]))))))

\* refreshLiveMetrics: kw
RawKw(r) == Coalesce(ParseFirstNumber(r[2]), LastLineNumber(r[1]))

\* refreshLiveMetrics: metric
Metric(r) ==
    [volts |-> SanitizeMetricNumber("volts", RawVolts(r)),
     kw |-> SanitizeMetricNumber("kw", RawKw(r)),
     rawVolts |-> RawVolts(r),
     rawKw |-> RawKw(r),
     currentmA |-> ParseFirstNumber(r[6])]

\* lines a board may answer a telemetry command with: numbers at and just
\* outside the bounds of the sanitizer, and a line without a number
NoNumberLine == <<"x">>
MetricLines ==
    {<<"0">>, <<"1","0","0","0">>, <<"1","0","0","0",".","0","0","1">>,
     <<"-","0",".","0","0","1">>, <<"-","1","0","0","0">>,
     <<"-","1","0","0","0",".","0","0","1">>, NoNumberLine}
AllLastLines == {<<"1","0","0","0",".","0","0","1">>, <<"-","1","0","0","0">>, NoNumberLine}

\* what safeCall(dev, cmd) may return: null (the call failed or returned no
\* data) or the array of lines read
Responses(cmd) ==
    IF cmd = "getAll"
    THEN {NullResp} \cup {ArrayResp(<<a, b>>) : a \in {<<"0">>, NoNumberLine}, b \in AllLastLines}
    ELSE IF cmd = "getCurrent"
    THEN {NullResp, ArrayResp(<< <<"5">> >>)}
    ELSE {NullResp} \cup {ArrayResp(<<l>>) : l \in MetricLines}

\* the board whose telemetry turn is followed
TelemetryDevice == 0

TelemetryIdle ==
    /\ tmCaps = {}
    /\ tmPc = 0
    /\ tmResp = <<>>

\* ------------------------------------------------------- connection diagram
\* identifyDevice: the names a board can get.  A generator, solartracker or
\* houseload gets the hardcoded catalog, any other board runs setupCommands
KnownNames == {"generator", "solartracker", "houseload"}
OtherNames == {"windturbine", "cvt"}

\* new DeviceClass().deviceType
DeviceType(name) ==
    IF name \in {"generator", "solartracker", "windturbine"} THEN "provider" ELSE "consumer"

\* String(dev.name).toLowerCase().includes('generator')
IsGenerator(name) == name = "generator"

\* getConnDiagramId of the device scanDevices gave the id device_<deviceId>
GetConnDiagramId(deviceId) == "dev:device_" \o ToString(deviceId)

\* the diagram id of a board of an earlier session that is not there now
StaleId == "dev:device_9"

\* [...connectedDevices.values(), ...availableDevices.values()]
AllDevices(conn, avail) == conn \o avail

\* normalizeConnections: existingIds
ExistingIds(conn, avail) ==
    {GetConnDiagramId(AllDevices(conn, avail)[k]) : k \in 1..Len(AllDevices(conn, avail))}

Edge(fromId, toId, kw) == [fromId |-> fromId, toId |-> toId, kw |-> kw]

\* normalizeConnections without its seen set
RECURSIVE NormalizeKeepDuplicates(_, _, _, _)
NormalizeKeepDuplicates(es, existingIds, seen, result) ==
    IF es = <<>> THEN result
    ELSE LET e == Head(es)
         IN  IF e.fromId \notin existingIds \/ e.toId \notin existingIds
             THEN NormalizeKeepDuplicates(Tail(es), existingIds, seen, result)
             ELSE NormalizeKeepDuplicates(Tail(es), existingIds, seen,
                                          Append(result, Edge(e.fromId, e.toId, e.kw)))

\* normalizeConnections: the loop over this.connections, from es on
RECURSIVE NormalizeFrom(_, _, _, _)
NormalizeFrom(es, existingIds, seen, result) ==
    IF es = <<>> THEN result
    ELSE LET e == Head(es)
             k == e.fromId \o "=>" \o e.toId
         IN  IF \/ e.fromId = "" \/ e.toId = ""
                \/ e.fromId \notin existingIds \/ e.toId \notin existingIds
                \/ k \in seen
             THEN NormalizeFrom(Tail(es), existingIds, seen, result)
             ELSE NormalizeFrom(Tail(es), existingIds, seen \cup {k},
                                Append(result, Edge(e.fromId, e.toId, e.kw)))

\* normalizeConnections without its filter: this.connections is left as it is
NormalizeNothing(es, conn, avail) == es

NormalizeConnections(es, conn, avail) ==
    NormalizeFrom(es, ExistingIds(conn, avail), {}, <<>>)

\* getConnectionKW, in thousandths
GetConnectionKW(edge) ==
    IF edge.kw.null \/ edge.kw.milli < 0 THEN 0 ELSE edge.kw.milli

\* Math.round(x * 100) / 100 of a number that is not negative, in thousandths
Round2(milli) == ((milli + 5) \div 10) * 10

RECURSIVE SumKW(_)
SumKW(es) == IF es = <<>> THEN 0 ELSE GetConnectionKW(Head(es)) + SumKW(Tail(es))

Max2(a, b) == IF a > b THEN a ELSE b
Min2(a, b) == IF a < b THEN a ELSE b

\* getSupplyForDeviceId / getDemandForDeviceId: the estimate of the device
\* with this diagram id, null if there is none
EstimateForDeviceId(id, all, est) ==
    IF \E k \in 1..Len(all) : GetConnDiagramId(all[k]) = id
    THEN est[CHOOSE d \in {all[k] : k \in 1..Len(all)} : GetConnDiagramId(d) = id]
    ELSE Null

\* autoAssignConnectionKW, in thousandths
AutoAssignConnectionKW(es, fromId, toId, all, est) ==
    LET supply == EstimateForDeviceId(fromId, all, est)
        demand == EstimateForDeviceId(toId, all, est)
        outgoing == SelectSeq(es, LAMBDA e : e.fromId = fromId)
        remaining == Max2(0, supply.milli - SumKW(outgoing))
    IN  IF supply.null \/ demand.null THEN 0
        ELSE Max2(0, Min2(remaining, demand.milli))

\* Array.prototype.some / find on this.connections
HasEdge(es, fromId, toId) ==
    \E k \in 1..Len(es) : es[k].fromId = fromId /\ es[k].toId = toId

\* edge.kw = kw on the first edge from fromId to toId
SetEdgeKW(es, fromId, toId, kw) ==
    LET k == CHOOSE i \in 1..Len(es) :
                /\ es[i].fromId = fromId /\ es[i].toId = toId
                /\ \A j \in 1..(i - 1) : ~(es[j].fromId = fromId /\ es[j].toId = toId)
    IN  [es EXCEPT ![k].kw = kw]

\* providers.find(generator) || providers[0], of all: the device or -1
FirstWhere(seq, Test(_)) ==
    IF \E k \in 1..Len(seq) : Test(seq[k])
    THEN seq[CHOOSE k \in 1..Len(seq) :
                 Test(seq[k]) /\ \A j \in 1..(k - 1) : ~Test(seq[j])]
    ELSE 0 - 1

PreferredProvider(all, names) ==
    LET gen == FirstWhere(all, LAMBDA d : DeviceType(names[d]) = "provider"
                                           /\ IsGenerator(names[d]))
    IN  IF gen >= 0 THEN gen
        ELSE FirstWhere(all, LAMBDA d : DeviceType(names[d]) = "provider")

\* computeMode2TargetKW: demandKW, otherSupplyKW and deficitKW, in thousandths
RECURSIVE OtherSupplyKW(_, _, _)
OtherSupplyKW(all, names, est) ==
    IF all = <<>> THEN 0
    ELSE LET d == Head(all)
         IN  (IF DeviceType(names[d]) = "provider" /\ ~IsGenerator(names[d])
                 /\ ~est[d].null
              THEN est[d].milli ELSE 0) + OtherSupplyKW(Tail(all), names, est)

ComputeMode2TargetKW(es, all, names, est) ==
    [demandKW |-> SumKW(es),
     otherSupplyKW |-> OtherSupplyKW(all, names, est),
     deficitKW |-> Max2(0, SumKW(es) - OtherSupplyKW(all, names, est))]

\* applyConnectionsMode2: targetKW without the clamp to the generator's capacity
TargetNoCap(deficitKW, maxKW) == deficitKW

\* applyConnectionsMode2: maxKW is the generator's estimate if it is not
\* negative; targetKW, then targetRounded
TargetKW(deficitKW, maxKW) ==
    IF maxKW.null \/ maxKW.milli < 0 THEN deficitKW ELSE Min2(deficitKW, maxKW.milli)

\* getConnectedGeneratorDevices with the generators in the opposite order
RECURSIVE Reverse(_)
Reverse(q) == IF q = <<>> THEN <<>> ELSE Append(Reverse(Tail(q)), Head(q))

ConnectedGeneratorsReversed(conn, names, catalogs) ==
    Reverse(SelectSeq(conn, LAMBDA d : IsGenerator(names[d])
                                       /\ setLoad \in DOMAIN catalogs[d]))

\* getConnectedGeneratorDevices
ConnectedGenerators(conn, names, catalogs) ==
    SelectSeq(conn, LAMBDA d : IsGenerator(names[d]) /\ setLoad \in DOMAIN catalogs[d])

\* String(n) and n.toFixed(2) of a number that is not negative, as characters
RECURSIVE NatChars(_)
NatChars(n) ==
    IF n < 10 THEN <<Digits[n + 1]>> ELSE Append(NatChars(n \div 10), Digits[(n % 10) + 1])

NumberString(signed) ==
    LET milli == IF signed < 0 THEN 0 - signed ELSE signed
        sign == IF signed < 0 THEN <<"-">> ELSE <<>>
        int == sign \o NatChars(milli \div 1000)
        f == milli % 1000
    IN  IF f = 0 THEN int
        ELSE IF f % 100 = 0 THEN int \o <<".", Digits[(f \div 100) + 1]>>
        ELSE IF f % 10 = 0
        THEN int \o <<".", Digits[(f \div 100) + 1], Digits[((f \div 10) % 10) + 1]>>
        ELSE int \o <<".", Digits[(f \div 100) + 1], Digits[((f \div 10) % 10) + 1],
                      Digits[(f % 10) + 1]>>

ToFixed2(milli) ==
    LET r == Round2(milli)
    IN  NatChars(r \div 1000) \o
        <<".", Digits[((r % 1000) \div 100) + 1], Digits[((r % 100) \div 10) + 1]>>

\* the consumer's pointerdown that pushes the edge whether or not it is there
\* and leaves the list as pushed
ConnectByPush(es, fromId, toId, kw, conn, avail) == Append(es, Edge(fromId, toId, kw))

\* pointerdown on a consumer block with a provider selected: the edge is pushed
\* unless it exists, and renderConnections normalizes the list
ConnectEdge(es, fromId, toId, kw, conn, avail) ==
    NormalizeConnections(IF HasEdge(es, fromId, toId) THEN es
                         ELSE Append(es, Edge(fromId, toId, kw)),
                         conn, avail)

\* Math.round((powerKW / n) * 100) / 100, in thousandths
Round2Div(milli, n) == ((2 * milli + 10 * n) \div (20 * n)) * 10

\* applyAllDemandRequests: edges.length for the consumer
EdgesInto(es, consumerId) == Len(SelectSeq(es, LAMBDA e : e.toId = consumerId))

\* autoConnectConsumerToProvider: the edge list after the call
AutoConnectConsumerToProvider(es, consumerId, all, names) ==
    IF PreferredProvider(all, names) < 0 THEN es
    ELSE Append(es, Edge(GetConnDiagramId(PreferredProvider(all, names)), consumerId,
                         Num(0)))

\* applyAllDemandRequests: the body of the loop for one request
ApplyRequest(es, req, all, names) ==
    LET es1 == IF EdgesInto(es, req.consumerId) = 0
               THEN AutoConnectConsumerToProvider(es, req.consumerId, all, names)
               ELSE es
        n == EdgesInto(es1, req.consumerId)
    IN  [k \in 1..Len(es1) |->
            IF es1[k].toId # req.consumerId THEN es1[k]
            ELSE IF n = 1 THEN [es1[k] EXCEPT !.kw = Num(req.powerKW)]
            ELSE [es1[k] EXCEPT !.kw = Num(Round2Div(req.powerKW, n))]]

\* applyAllDemandRequests: the loop over validRequests
RECURSIVE ApplyRequests(_, _, _, _)
ApplyRequests(es, reqs, all, names) ==
    IF reqs = <<>> THEN es
    ELSE ApplyRequests(ApplyRequest(es, Head(reqs), all, names), Tail(reqs), all, names)

\* applyAllDemandRequests: validRequests
ValidRequests(reqs) == SelectSeq(reqs, LAMBDA r : r.consumerId # "" /\ r.powerKW > 0)

\* updateSurplusTargetSelect: the option values
SurplusTargets(all, names) ==
    IF \E k \in 1..Len(all) : names[all[k]] = "cvt"
    THEN {GetConnDiagramId(all[k]) : k \in {j \in 1..Len(all) : names[all[j]] = "cvt"}}
    ELSE {GetConnDiagramId(all[k]) :
             k \in {j \in 1..Len(all) : DeviceType(names[all[j]]) = "consumer"}}

Abs(x) == IF x < 0 THEN 0 - x ELSE x

\* the comparison Math.abs(Number(last.targetKW) - targetRounded) < 0.01 on IEEE
\* doubles.  Both numbers are c / 100 for an integer c, as Math.round(x * 100) /
\* 100 made them, and 0.01 is 1 / 100: the double of c / 100 is
\* (c * 2^s + RoundingError(c)) / (100 * 2^s) with s = 52 - Log2Floor(c)
RECURSIVE Pow2(_)
Pow2(n) == IF n = 0 THEN 1 ELSE 2 * Pow2(n - 1)

Pow2Mod100(n) ==
    LET rest[k \in Nat] == IF k = 0 THEN 1 ELSE (2 * rest[k - 1]) % 100
    IN  rest[n]

\* the binary exponent of c / 100, c > 0: the e with 2^e <= c / 100 < 2^(e + 1)
Log2Floor(c) ==
    CHOOSE e \in (0 - 7)..20 :
        /\ IF e >= 0 THEN Pow2(e) * 100 <= c ELSE 100 <= c * Pow2(0 - e)
        /\ IF e + 1 >= 0 THEN c < Pow2(e + 1) * 100 ELSE c * Pow2(0 - (e + 1)) < 100

\* 100 * mantissa - c * 2^s after rounding the mantissa to the nearest integer
RoundingError(c) ==
    LET rem == ((c % 100) * Pow2Mod100(52 - Log2Floor(c))) % 100
    IN  IF rem <= 50 THEN 0 - rem ELSE 100 - rem

\* the error of the double of c / 100, in units of 1 / (100 * 2^59)
ScaledError(c) == IF c = 0 THEN 0 ELSE RoundingError(c) * Pow2(7 + Log2Floor(c))

\* Math.abs(a - b) < 0.01 for a and b in thousandths, both multiples of 10; the
\* subtraction of doubles one hundredth apart is exact
WithinCent(a, b) ==
    \E hi \in {Max2(a, b) \div 10}, lo \in {Min2(a, b) \div 10} :
       IF hi = lo THEN TRUE
       ELSE IF hi - lo >= 2 THEN FALSE
       ELSE ScaledError(hi) - ScaledError(lo) < ScaledError(1)

\* _connMode2InFlight = false, _connMode2LastApplied = null, no status line yet;
\* report is what applyConnectionsMode2 last showed: the numbers of the status
\* line, or the notice of its warning toast
NoTarget == [set |-> FALSE, genId |-> 0, targetKW |-> 0]
NoReport == [set |-> FALSE, demandKW |-> 0, otherSupplyKW |-> 0, targetKW |-> 0,
             notice |-> ""]
Mode2Idle == [waiting |-> 0, pending |-> NoTarget, last |-> NoTarget, report |-> NoReport]

\* the boards as identifyDevice named them: a generator, a CVT and a house load
DefaultNames == <<"generator", "cvt", "houseload">>

\* the diagram after the constructor: init's updateUI has rendered it when no
\* device was there yet, which leaves no edge
GraphIdle ==
    /\ connections = <<>>
    /\ connStored = <<>>
    /\ connPendingFrom = ""
    /\ connLoaded = <<>>
    /\ mode2 = Mode2Idle

\* executeCommand: String(cmdName).toLowerCase().startsWith('set')
IsSetCmdCaseSensitive(cmdName) == StartsWith(cmdName, <<"s","e","t">>)

IsSetCmd(cmdName) == StartsWith(ToLowerCase(cmdName), <<"s","e","t">>)

\* executeCommand: inArg > 0 || String(cmdName).startsWith('set')
NeedsInput(cat, cmdName) ==
    \/ (cmdName \in DOMAIN cat /\ cat[cmdName].inArg > 0)
    \/ StartsWith(cmdName, <<"s","e","t">>)

\* msg.includes('timeout')
IsTimeoutMsg(err) == err.kind = "timeout"

\* getQueueForDevice: the tail of the device's chain; 0 is Promise.resolve()
GetQueueShared(queues, deviceId) ==
    IF DOMAIN queues = {} THEN 0 ELSE queues[CHOOSE k \in DOMAIN queues : TRUE]

GetQueueForDevice(queues, deviceId) ==
    IF deviceId \in DOMAIN queues THEN queues[deviceId] ELSE 0

\* enqueueDeviceCommand: this.deviceQueues.set(deviceId, next)
SetQueueStale(queues, deviceId, next) ==
    [k \in DOMAIN queues \cup {deviceId} |->
        IF k \in DOMAIN queues THEN queues[k] ELSE 0]

SetQueue(queues, deviceId, next) ==
    [k \in DOMAIN queues \cup {deviceId} |->
        IF k = deviceId THEN next ELSE queues[k]]

\* enqueueDeviceCommand: prev.catch(() => undefined).then(() => taskFn())
\* what the link does once prev is in prevState
QueueLinkNoCatch(prevState) ==
    IF prevState = "fulfilled" THEN "run"
    ELSE IF prevState = "rejected" THEN "reject" ELSE "wait"

QueueLinkEager(prevState) == "run"

QueueLink(prevState) == IF prevState \in Settled THEN "run" ELSE "wait"

PrevState(cs, j) == IF cs[j].prev = 0 THEN "fulfilled" ELSE cs[cs[j].prev].state

Ready(cs) ==
    {j \in 1..Len(cs) : /\ cs[j].state = "pending"
                         /\ QueueLink(PrevState(cs, j)) # "wait"}

Min(S) == CHOOSE x \in S : \A y \in S : x <= y

\* the part of the state a command task works on
World ==
    [calls |-> calls, commandLog |-> commandLog, lastCommand |-> lastCommand,
     lastStatus |-> lastStatus, out |-> out, orphans |-> orphans,
     metricsIntervalId |-> metricsIntervalId]

Mark(w, d, cmdName, status) ==
    [w EXCEPT !.lastCommand[d] = cmdName, !.lastStatus[d] = status]

LogEntry(i, c, args, result, error) ==
    [inv |-> i, deviceId |-> c.deviceId, command |-> c.cmdName, args |-> args,
     result |-> result, error |-> error]

\* executeCommand, the catch block
Catch(w, i, err) ==
    LET c == w.calls[i]
        w1 == UpdateUI(Mark(w, c.deviceId, c.cmdName,
                            IF IsTimeoutMsg(err) THEN "TIMEOUT" ELSE "ERROR"),
                       connectedDevices)
    IN  [w1 EXCEPT !.commandLog = AddCommandLog(@, LogEntry(i, c, c.args, NoResult, err)),
                   !.calls[i].state = "fulfilled"]

\* executeCommand, after the transport work returned result (lines; <<>> with
\* isArray FALSE is null)
Finish(w, i, isArray, lines) ==
    LET c == w.calls[i]
        hasPayload == isArray /\ Len(lines) > 0
    IN  IF ~resultModal
        THEN Catch(w, i, [kind |-> "exception", label |-> ""])
        ELSE LET w1 == UpdateUI(Mark(w, c.deviceId, c.cmdName, "OK"), connectedDevices)
             IN  [w1 EXCEPT
                    !.commandLog = AddCommandLog(@,
                        LogEntry(i, c, c.args,
                                 IF hasPayload
                                 THEN [text |-> "payload", lines |-> lines]
                                 ELSE [text |-> "sent (no payload)", lines |-> <<>>],
                                 NoError)),
                    !.calls[i].state = "fulfilled"]

\* executeCommand, the prompt was cancelled: one log entry, then return
CancelledNoLog(w, i) == [w EXCEPT !.calls[i].state = "fulfilled"]

Cancelled(w, i) ==
    [w EXCEPT !.commandLog = AddCommandLog(@,
                  LogEntry(i, w.calls[i], <<>>, NoResult,
                           [kind |-> "cancelled", label |-> ""])),
              !.calls[i].state = "fulfilled"]

\* executeCommand, the queued task from its first line to its first await
StartCommand(w, i) ==
    LET c == w.calls[i]
        d == c.deviceId
        cat == cmds[d]
        w1 == UpdateUI(Mark(w, d, c.cmdName, "RUNNING"), connectedDevices)
        asks == ~c.optArgs.given /\ NeedsInput(cat, c.cmdName) /\ c.prompt # "null"
        args == IF c.optArgs.given THEN c.optArgs.list
                ELSE IF asks THEN c.reply.words ELSE <<>>
        outArg == IF c.cmdName \in DOMAIN cat THEN cat[c.cmdName].outArg ELSE 0
        plan == CallPlan(cat, c.cmdName)
    IN  IF asks /\ c.reply.cancelled
        THEN Cancelled([w1 EXCEPT !.calls[i].ran = TRUE], i)
        ELSE IF Len(args) > 0
        THEN [w1 EXCEPT !.calls[i].state = "running", !.calls[i].ran = TRUE,
                        !.calls[i].args = args, !.calls[i].path = "args",
                        !.calls[i].sends = args, !.calls[i].toRead = outArg,
                        !.out = SendCommand(@, d, c.cmdName, i, c.cmdName)]
        ELSE IF plan.sends = <<>>
        THEN Finish([w1 EXCEPT !.calls[i].ran = TRUE], i, FALSE, <<>>)
        ELSE [w1 EXCEPT !.calls[i].state = "running", !.calls[i].ran = TRUE,
                        !.calls[i].path = "call", !.calls[i].toRead = plan.reads,
                        !.out = SendCommand(@, d, c.cmdName, i, c.cmdName)]

\* a task function handed to enqueueDeviceCommand directly: it awaits once
StartTask(w, i) ==
    IF w.calls[i].kind = "task"
    THEN [w EXCEPT !.calls[i].state = "running", !.calls[i].ran = TRUE]
    ELSE StartCommand(w, i)

\* promise reactions: every link whose predecessor has settled runs now
RECURSIVE Drain(_)
Drain(w) ==
    CHOOSE r \in
       {IF Ready(v.calls) = {} THEN v
        ELSE LET j == Min(Ready(v.calls))
             IN  IF QueueLink(PrevState(v.calls, j)) = "run"
                 THEN Drain(StartTask(v, j))
                 ELSE Drain([v EXCEPT !.calls[j].state = "rejected"]) : v \in {w}} : TRUE

\* the turn ends in the world v
Apply(w) ==
    \E v \in {w} :
       /\ calls' = v.calls
       /\ commandLog' = v.commandLog
       /\ lastCommand' = v.lastCommand
       /\ lastStatus' = v.lastStatus
       /\ out' = v.out
       /\ orphans' = v.orphans
       /\ metricsIntervalId' = v.metricsIntervalId

\* ---------------------------------------------------------------- estimates
\* a value read from a stored object or typed by the operator: absent
\* (undefined), something Number() turns into NaN, or a number in thousandths
Missing == [kind |-> "missing", milli |-> 0]
NotANumber == [kind |-> "nan", milli |-> 0]
Given(milli) == [kind |-> "number", milli |-> milli]

\* Number.isFinite(Number(v)) && Number(v) >= 0, the test of the input handlers
AcceptsNegative(v) == v.kind = "number"

IsValidKW(v) == v.kind = "number" /\ v.milli >= 0

\* parsePositiveNumber
ParsePositiveNumber(v) == IF IsValidKW(v) THEN Num(v.milli) ELSE Null

\* clamp01(v ?? 1)
Clamp01OrOne(v) ==
    IF v.kind = "missing" THEN 1000
    ELSE IF v.kind = "nan" THEN 0
    ELSE Max2(0, Min2(1000, v.milli))

\* computeEstimatedKW with telemetry tried first whatever the preference is
TelemetryFirst(preferManual, info, est, metric) ==
    LET hasTelemetry == metric.present /\ ~metric.kw.null
        ratedW == ParsePositiveNumber(est.ratedW)
        capacityKW == ParsePositiveNumber(est.capacityKW)
    IN  IF hasTelemetry THEN [kw |-> metric.kw, source |-> "telemetry"]
        ELSE IF info = "consumer" /\ ~ratedW.null
        THEN [kw |-> Num(((ratedW.milli * Clamp01OrOne(est.utilization)) \div 1000) \div 1000),
              source |-> "estimate"]
        ELSE IF info = "provider" /\ ~capacityKW.null
        THEN [kw |-> Num((capacityKW.milli * Clamp01OrOne(est.availability)) \div 1000),
              source |-> "estimate"]
        ELSE [kw |-> Null, source |-> "none"]

\* computeEstimatedKW(deviceInfo, metric): info is deviceInfo.type, "" when
\* deviceInfo is null; est is what loadPowerEst found; metric.present is false
\* when metric is null.  ratedW is in W, the rest in kW or a fraction
ComputeEstimatedKW(preferManual, info, est, metric) ==
    LET ratedW == ParsePositiveNumber(est.ratedW)
        util == Clamp01OrOne(est.utilization)
        capacityKW == ParsePositiveNumber(est.capacityKW)
        avail == Clamp01OrOne(est.availability)
        consumerKW == Num(((ratedW.milli * util) \div 1000) \div 1000)
        providerKW == Num((capacityKW.milli * avail) \div 1000)
    IN  IF preferManual /\ info = "consumer" /\ ~ratedW.null
        THEN [kw |-> consumerKW, source |-> "estimate"]
        ELSE IF preferManual /\ info = "provider" /\ ~capacityKW.null
        THEN [kw |-> providerKW, source |-> "estimate"]
        ELSE IF metric.present /\ ~metric.kw.null
        THEN [kw |-> metric.kw, source |-> "telemetry"]
        ELSE IF info = "consumer"
        THEN IF ratedW.null THEN [kw |-> Null, source |-> "none"]
             ELSE [kw |-> consumerKW, source |-> "estimate"]
        ELSE IF info = "provider"
        THEN IF capacityKW.null THEN [kw |-> Null, source |-> "none"]
             ELSE [kw |-> providerKW, source |-> "estimate"]
        ELSE [kw |-> Null, source |-> "none"]

NoEstimate == [kw |-> Null, source |-> ""]

\* the inferred demand is kept exactly: one unit is a thousandth of a kW divided
\* by 20 once for each evaluation the bound allows (the smoothing factor is a
\* number of twentieths)
RECURSIVE Pow20(_)
Pow20(n) == IF n = 0 THEN 1 ELSE 20 * Pow20(n - 1)

Scale == Pow20(MaxEvals)

\* inferDemandKW, its early returns when only the switch is tested
CannotInferWhenDisabled(st, totalSupplyKW) == ~st.enabled

\* inferDemandKW, its early returns: inference is off, or the supply is no
\* finite number, or it is not positive
CannotInfer(st, totalSupplyKW) ==
    \/ ~st.enabled
    \/ totalSupplyKW.null
    \/ totalSupplyKW.milli <= 0

\* inferDemandKW with the step applied in full
InferUnsmoothed(st, totalSupplyKW, manualDemandKW) ==
    LET manual == IF manualDemandKW.null THEN 0 ELSE manualDemandKW.milli * Scale
        rawTarget == Max2(Max2(0, manual), totalSupplyKW.milli * Scale)
        maxStep == Max2(100, st.maxStepKW) * Scale
        p == st.demandKW.milli
        bounded == p + Max2(0 - maxStep, Min2(maxStep, rawTarget - p))
        called == [st EXCEPT !.supply = totalSupplyKW, !.manual = manualDemandKW,
                             !.calls = @ + 1]
    IN  IF CannotInfer(st, totalSupplyKW) THEN [called EXCEPT !.returned = Null]
        ELSE LET next == IF st.demandKW.null THEN rawTarget ELSE bounded
             IN  [called EXCEPT !.demandKW = Num(next),
                                !.lastSupplyKW = totalSupplyKW,
                                !.updatedAt = st.calls + 1,
                                !.returned = Num(next)]

\* inferDemandKW(totalSupplyKW, manualDemandKW) on the state st; Date.now() is
\* the number of the call
InferDemandKW(st, totalSupplyKW, manualDemandKW) ==
    LET manual == IF manualDemandKW.null THEN 0 ELSE manualDemandKW.milli * Scale
        floor == Max2(0, manual)
        rawTarget == Max2(floor, totalSupplyKW.milli * Scale)
        maxStep == Max2(100, st.maxStepKW) * Scale
        a == Max2(1, Min2(19, st.alpha))
        p == st.demandKW.milli
        bounded == p + Max2(0 - maxStep, Min2(maxStep, rawTarget - p))
        smoothed == a * (bounded \div 20) + (20 - a) * (p \div 20)
        called == [st EXCEPT !.supply = totalSupplyKW, !.manual = manualDemandKW,
                             !.calls = @ + 1]
    IN  IF CannotInfer(st, totalSupplyKW) THEN [called EXCEPT !.returned = Null]
        ELSE LET next == IF st.demandKW.null THEN rawTarget ELSE smoothed
             IN  [called EXCEPT !.demandKW = Num(next),
                                !.lastSupplyKW = totalSupplyKW,
                                !.updatedAt = st.calls + 1,
                                !.returned = Num(next)]

\* ------------------------------------------------------------ metric filter
\* the constructor's filter settings; values are kept in thousandths
metricsHistorySize == 5
metricsMaxChangePercent == 200

\* filterMetricValue: absThreshold, and the bound under which the average
\* counts as near zero
absThreshold == 50000
NearZero == 10000

Fields == {"volts", "kw"}

\* the entry filterMetricValue creates for a device that has none
NoHistory == [volts |-> <<>>, kw |-> <<>>]

RECURSIVE SumSeq(_)
SumSeq(q) == IF q = <<>> THEN 0 ELSE Head(q) + SumSeq(Tail(q))

\* filterMetricValue: isOutlier of v against the average of arr, which is not
\* empty; both sides of each comparison are multiplied by arr.length, and by
\* the size of the average where the code divides by it
IsOutlier(arr, v) ==
    LET n == Len(arr)
        sum == SumSeq(arr)
    IN  IF Abs(sum) < NearZero * n
        THEN Abs(n * v - sum) > absThreshold * n /\ Abs(v) > absThreshold
        ELSE Abs(n * v - sum) * 100 > metricsMaxChangePercent * Abs(sum)

\* while (arr.length > this.metricsHistorySize) arr.shift()
RECURSIVE ShiftToSize(_)
ShiftToSize(arr) ==
    IF Len(arr) > metricsHistorySize THEN ShiftToSize(Tail(arr)) ELSE arr

\* filterMetricValue(deviceId, field, newValue) on the Map hist: the Map it
\* leaves and the value it returns; Null is null or NaN
FilterMetricValue(hist, deviceId, field, newValue) ==
    IF newValue.null THEN [history |-> hist, returned |-> Null]
    ELSE LET h == IF deviceId \in DOMAIN hist THEN hist[deviceId] ELSE NoHistory
             arr == h[field]
             v == newValue.milli
             Put(a) == [k \in DOMAIN hist \cup {deviceId} |->
                          IF k = deviceId THEN [h EXCEPT ![field] = a] ELSE hist[k]]
         IN  IF arr = <<>>
             THEN [history |-> Put(<<v>>), returned |-> newValue]
             ELSE IF field = "volts" /\ v < 0
             THEN [history |-> Put(arr), returned |-> Num(arr[Len(arr)])]
             ELSE IF IsOutlier(arr, v)
             THEN [history |-> Put(arr), returned |-> Num(arr[Len(arr)])]
             ELSE [history |-> Put(ShiftToSize(Append(arr, v))), returned |-> newValue]

\* no filter call has been made
NoFilterCall == [op |-> "", deviceId |-> 0, field |-> "", value |-> Null,
                 returned |-> Null, calls |-> 0]

FilterIdle ==
    /\ metricsHistory = <<>>
    /\ filtered = NoFilterCall

\* -------------------------------------------------- estimates, idle state
\* the state of the inference after construction, with the tuning loaded
AutoEstInit(enabled, alpha, maxStepKW) ==
    [enabled |-> enabled, alpha |-> alpha, maxStepKW |-> maxStepKW,
     demandKW |-> Null, lastSupplyKW |-> Null, updatedAt |-> 0,
     calls |-> 0, supply |-> Null, manual |-> Null, returned |-> Null,
     toggledAt |-> 0]

\* no value has been given yet
NoInput == [handler |-> "", value |-> Missing, toast |-> ""]

NoEstimateCall ==
    [preferManual |-> FALSE, info |-> "", metric |-> [present |-> FALSE, kw |-> Null],
     est |-> [ratedW |-> Missing, utilization |-> Missing, capacityKW |-> Missing,
              availability |-> Missing],
     done |-> FALSE, result |-> NoEstimate]

EstimateIdle ==
    /\ autoEst = AutoEstInit(FALSE, 7, 1000)
    /\ estimated = NoEstimateCall
    /\ lastInput = NoInput
    /\ metricsPaused = FALSE            \* initMetricsPauseBtn
    /\ FilterIdle

\* ---------------------------------------------------------------- discovery
\* getCommands({ timeoutMs = 20000, maxCommands = 128 }), maxBlankStreak = 50
timeoutMs == 20000
maxCommands == 128
maxBlankStreak == 50
FirstReadTimeoutMs == 3000
FirstSleepMs == 300
BlankSleepMs == 250
EchoSleepMs == 100

\* lines a board may send during discovery
getCommandsLine == <<"g","e","t","C","o","m","m","a","n","d","s">>
eoc == <<"e","o","c">>
SigInit == <<"i","n","i","t">>
SigGetKW == <<"g","e","t","K","W",">","1">>
SigSetLoad == <<"s","e","t","L","o","a","d",">","1","<","1">>
SigLight0 == <<"l","i","g","h","t","0",">","2","<","1">>
SigLines == {SigInit, SigGetKW, SigSetLoad, SigLight0}

IsLetter(c) == \E k \in 1..26 : Upper[k] = c \/ Lower[k] = c

IsNameChar(c) == IsLetter(c) \/ c = "_"
IsWordChar(c) == IsLetter(c) \/ c = "_" \/ IsDigit(c)

\* [a-zA-Z_]* matched greedily after position i: where the run ends
LetterRunEnd(s, i) ==
    CHOOSE j \in i..Len(s) :
        /\ \A k \in (i + 1)..j : IsNameChar(s[k])
        /\ j = Len(s) \/ ~IsNameChar(s[j + 1])

\* [A-Za-z0-9_]* matched greedily after position i: where the run ends
WordRunEnd(s, i) ==
    CHOOSE j \in i..Len(s) :
        /\ \A k \in (i + 1)..j : IsWordChar(s[k])
        /\ j = Len(s) \/ ~IsWordChar(s[j + 1])

\* the optional group (?:<mark>(\d+))? tried after position i: where it ends and
\* parseInt of its digits, 0 when the group matches nothing
OptCount(s, i, mark) ==
    IF i + 2 <= Len(s) /\ s[i + 1] = mark /\ IsDigit(s[i + 2])
    THEN [end |-> DigitRunEnd(s, i + 2),
          n |-> DigitsValue(s, i + 2, DigitRunEnd(s, i + 2))]
    ELSE [end |-> i, n |-> 0]

\* parseCommand, the two optional groups after a name that ends at e
MatchAfterName(cmdLine, e) ==
    {[command |-> SubSeq(cmdLine, 1, e), numOfOutput |-> o.n,
      numOfInput |-> OptCount(cmdLine, o.end, "<").n] :
        o \in {OptCount(cmdLine, e, ">")}}

\* parseCommand: /^([a-zA-Z_]+)(?:>(\d+))?(?:<(\d+))?/
ParseCommand(cmdLine) ==
    CHOOSE parsed \in
        UNION {IF e = 0
               THEN {[command |-> cmdLine, numOfOutput |-> 0, numOfInput |-> 0]}
               ELSE MatchAfterName(cmdLine, e) : e \in {LetterRunEnd(cmdLine, 0)}} :
        TRUE

\* a JavaScript object: its keys in insertion order and the value of each
EmptyObject == [order |-> <<>>, at |-> <<>>]

ObjectSet(obj, key, value) ==
    [order |-> MapSet(obj.order, key),
     at |-> [k \in DOMAIN obj.at \cup {key} |-> IF k = key THEN value ELSE obj.at[k]]]

\* setupCommands: one turn of the loop over the lines getCommands returned
SetupCommand(obj, cmdLine) ==
    IF cmdLine = <<>> \/ cmdLine = eoc THEN obj
    ELSE CHOOSE set \in {ObjectSet(obj, p.command, Cmd(p.numOfInput, p.numOfOutput)) :
                            p \in {ParseCommand(cmdLine)}} : TRUE

\* parseFirmwareCommands: /^([A-Za-z_][A-Za-z0-9_]*)/, else the line itself
BaseName(line) ==
    IF Len(line) > 0 /\ IsNameChar(line[1])
    THEN SubSeq(line, 1, WordRunEnd(line, 0)) ELSE line

\* parseFirmwareCommands(rawCommands).signaturesByCommand: the first line of
\* each base name
RECURSIVE SignaturesByCommand(_, _)
SignaturesByCommand(sigs, rawCommands) ==
    IF rawCommands = <<>> THEN sigs
    ELSE LET line == Head(rawCommands)
             base == BaseName(line)
         IN  IF line = <<>> \/ ToLowerCase(line) = eoc \/ base \in DOMAIN sigs
             THEN SignaturesByCommand(sigs, Tail(rawCommands))
             ELSE SignaturesByCommand(
                     [k \in DOMAIN sigs \cup {base} |->
                         IF k = base THEN line ELSE sigs[k]],
                     Tail(rawCommands))

\* scanDevices: commandSignatures, computed from listCmds()
CommandSignatures(obj) == SignaturesByCommand(<<>>, obj.order)

\* what a board does during discovery: it sends the lines of prefix, one per
\* read and each delay ms after the read began, and then behaves as tail says:
\* "silent" sends nothing, "blank" sends empty lines, "eoc" sends eoc, "repeat"
\* sends the prefix over and over
Tails == {"silent", "blank", "eoc", "repeat"}
Delays == {0, 1900}

\* readResponse(timeout) number pos + 1: the line it returns and how long it took
Reply(script, pos, timeout) ==
    LET k == pos + 1
        n == Len(script.prefix)
    IN  IF k <= n THEN [line |-> script.prefix[k], dt |-> script.delay]
        ELSE IF script.tail = "eoc" THEN [line |-> eoc, dt |-> script.delay]
        ELSE IF script.tail = "blank" THEN [line |-> Blank, dt |-> script.delay]
        ELSE IF script.tail = "repeat" /\ n > 0
        THEN [line |-> script.prefix[((k - 1) % n) + 1], dt |-> script.delay]
        ELSE [line |-> Blank, dt |-> timeout]

\* getCommands: while (Date.now() - start < timeoutMs && lines.length < maxCommands)
LoopNoDeadline(now, n) == n < maxCommands

LoopContinues(now, n) == now < timeoutMs /\ n < maxCommands

\* getCommands: if (cmdName === 'eoc') break
IsEocNever(cmdName) == FALSE

IsEoc(cmdName) == cmdName = eoc

IdleScript == [prefix |-> <<>>, tail |-> "silent", delay |-> 0]

DiscoveryIdle ==
    /\ gcPos = 0
    /\ gcPc = "idle"
    /\ gcLines = <<>>
    /\ gcBlankStreak = 0
    /\ gcNow = 0
    /\ gcOut = <<>>
    /\ gcIn = <<>>
    /\ gcSetupAt = 0
    /\ gcCmds = EmptyObject

\* ------------------------------------------------------------------ actions
\* what identifyDevice built for the board scanned as deviceId: a recognised
\* generator for even ids, a board that went through setupCommands for odd ids
ScannedCatalog(deviceId) == IF deviceId % 2 = 0 THEN KnownCatalog ELSE FirmwareCatalog

\* the state after the constructor, MaxDevices scans and a move of every
\* scanned device to the connected map, in id order
ManagerInit ==
    /\ availableDevices = <<>>
    /\ connectedDevices = [k \in 1..MaxDevices |-> k - 1]
    /\ deviceIdCounter = MaxDevices
    /\ cmds = [d \in DeviceIds |-> ScannedCatalog(d)]
    /\ lastCommand = [d \in DeviceIds |-> <<>>]
    /\ lastStatus = [d \in DeviceIds |-> ""]
    /\ safeModeEnabled \in BOOLEAN      \* loadSafeModeEnabled()
    /\ resultModal \in BOOLEAN
    /\ deviceQueues = <<>>
    /\ calls = <<>>
    /\ orphans = {}
    /\ commandLog = <<>>
    /\ out = [d \in DeviceIds |-> <<>>]
    /\ inp = [d \in DeviceIds |-> <<>>]
    /\ metricsIntervalId = TRUE
    /\ sweeps = <<>>
    /\ metrics = <<>>

Init ==
    /\ ManagerInit
    /\ gcScript = IdleScript
    /\ DiscoveryIdle
    /\ TelemetryIdle /\ EstimateIdle
    /\ devName = [d \in DeviceIds |-> DefaultNames[(d % 3) + 1]]
    /\ powerEst = [d \in DeviceIds |-> Null]
    /\ GraphIdle

\* scanDevices, a board was identified: it joins the available map
ScanDevices(cat) ==
    /\ deviceIdCounter < MaxDevices
    /\ availableDevices' = MapSet(availableDevices, deviceIdCounter)
    /\ cmds' = cmds @@ (deviceIdCounter :> cat)
    /\ deviceIdCounter' = deviceIdCounter + 1
    /\ metricsIntervalId' = (Len(connectedDevices) > 0)
    /\ connections' = NormalizeConnections(connections, connectedDevices,
                                           availableDevices')
    /\ connStored' = connections'
    /\ UNCHANGED <<discovery, telemetry, devName, powerEst, connPendingFrom, connLoaded, mode2,
                   connectedDevices, lastCommand, lastStatus, safeModeEnabled,
                   resultModal, deviceQueues, calls, orphans, commandLog, out, inp,
                   sweeps, metrics>>

MoveDevice(deviceId, targetLocation) ==
    /\ IF targetLocation = "connected"
       THEN IF Has(availableDevices, deviceId)
            THEN /\ availableDevices' = MapDelete(availableDevices, deviceId)
                 /\ connectedDevices' = MapSet(connectedDevices, deviceId)
            ELSE UNCHANGED <<availableDevices, connectedDevices>>
       ELSE IF Has(connectedDevices, deviceId)
            THEN /\ connectedDevices' = MapDelete(connectedDevices, deviceId)
                 /\ availableDevices' = MapSet(availableDevices, deviceId)
            ELSE UNCHANGED <<availableDevices, connectedDevices>>
    /\ metricsIntervalId' = (Len(connectedDevices') > 0)
    /\ connections' = NormalizeConnections(connections, connectedDevices',
                                           availableDevices')
    /\ connStored' = connections'
    /\ UNCHANGED <<discovery, telemetry, devName, powerEst, connPendingFrom, connLoaded, mode2,
                   deviceIdCounter, cmds, lastCommand, lastStatus, safeModeEnabled,
                   resultModal, deviceQueues, calls, orphans, commandLog, out, inp,
                   sweeps, metrics>>

OnPortDisconnect(deviceId) ==
    /\ availableDevices' = MapDelete(availableDevices, deviceId)
    /\ connectedDevices' = MapDelete(connectedDevices, deviceId)
    /\ metricsIntervalId' = (Len(connectedDevices') > 0)
    /\ connections' = NormalizeConnections(connections, connectedDevices',
                                           availableDevices')
    /\ connStored' = connections'
    /\ UNCHANGED <<discovery, telemetry, devName, powerEst, connPendingFrom, connLoaded, mode2,
                   deviceIdCounter, cmds, lastCommand, lastStatus, safeModeEnabled,
                   resultModal, deviceQueues, calls, orphans, commandLog, out, inp,
                   sweeps, metrics>>

SetSafeModeEnabled(enabled) ==
    /\ safeModeEnabled' = enabled
    /\ UNCHANGED <<others, registry, lastCommand, lastStatus, resultModal, deviceQueues,
                   calls, orphans, commandLog, out, inp, metricsIntervalId, sweeps,
                   metrics>>

NewCall(deviceId, cmdName, optArgs, prompt, reply, kind, fails, prev, state) ==
    [deviceId |-> deviceId, cmdName |-> cmdName, optArgs |-> optArgs,
     prompt |-> prompt, reply |-> reply, kind |-> kind, fails |-> fails,
     prev |-> prev, state |-> state, ran |-> FALSE, args |-> <<>>, path |-> "",
     sends |-> <<>>, toRead |-> 0, data |-> <<>>, elapsed |-> 0]

\* enqueueDeviceCommand(deviceId, taskFn); the new promise is Len(calls) + 1
EnqueueDeviceCommand(w, call) ==
    Drain([w EXCEPT !.calls = Append(@,
              [call EXCEPT !.prev = GetQueueForDevice(deviceQueues, call.deviceId)])])

\* the options a caller passes, and the operator's answer where the prompt opens
Options(deviceId, cmdName) ==
    {[args |-> Args5, prompt |-> "null", reply |-> ReplyEmpty],
     [args |-> NoArgs, prompt |-> "null", reply |-> ReplyEmpty]}
    \cup (IF NeedsInput(cmds[deviceId], cmdName)
          THEN {[args |-> NoArgs, prompt |-> "ask", reply |-> r] : r \in Replies}
          ELSE {})

\* executeCommand, what it does to the manager's variables
ExecuteCommandIn(deviceId, cmdName, optArgs, prompt, reply) ==
    /\ IF ~Has(connectedDevices, deviceId)
       THEN UNCHANGED manager
       ELSE IF safeModeEnabled /\ IsSetCmd(cmdName)
       THEN LET c == NewCall(deviceId, cmdName, optArgs, prompt, reply, "blocked",
                             FALSE, 0, "fulfilled")
                i == Len(calls) + 1
                w1 == [World EXCEPT
                         !.calls = Append(@, c),
                         !.commandLog = AddCommandLog(@,
                             LogEntry(i, c, IF optArgs.given THEN optArgs.list ELSE <<>>,
                                      NoResult, [kind |-> "blocked", label |-> ""]))]
            IN  /\ Apply(UpdateUI(Mark(w1, deviceId, cmdName, "BLOCKED"),
                                  connectedDevices))
                /\ UNCHANGED <<registry, safeModeEnabled, resultModal, deviceQueues,
                               inp, sweeps, metrics>>
       ELSE /\ Apply(EnqueueDeviceCommand(World,
                       NewCall(deviceId, cmdName, optArgs, prompt, reply, "command",
                               FALSE, 0, "pending")))
            /\ deviceQueues' = SetQueue(deviceQueues, deviceId, Len(calls) + 1)
            /\ UNCHANGED <<registry, safeModeEnabled, resultModal, inp, sweeps,
                           metrics>>

ExecuteCommand(deviceId, cmdName, optArgs, prompt, reply) ==
    /\ ExecuteCommandIn(deviceId, cmdName, optArgs, prompt, reply)
    /\ UNCHANGED others

\* enqueueDeviceCommand called with a task function that returns or throws
EnqueueTask(deviceId, fails) ==
    /\ Apply(EnqueueDeviceCommand(World,
               NewCall(deviceId, <<>>, NoArgs, "null", ReplyEmpty, "task", fails, 0,
                       "pending")))
    /\ deviceQueues' = SetQueue(deviceQueues, deviceId, Len(calls) + 1)
    /\ UNCHANGED <<others, registry, safeModeEnabled, resultModal, inp, sweeps, metrics>>

\* the task function returns or throws
TaskSettle(i) ==
    /\ i \in 1..Len(calls)
    /\ calls[i].kind = "task" /\ calls[i].state = "running"
    /\ Apply(Drain([World EXCEPT !.calls[i].state =
                       IF calls[i].fails THEN "rejected" ELSE "fulfilled"]))
    /\ UNCHANGED <<others, registry, safeModeEnabled, resultModal, deviceQueues, inp, sweeps,
                   metrics>>

InIO(i) == i \in 1..Len(calls) /\ calls[i].kind = "command" /\ calls[i].state = "running"

\* the await of the previous write (and sleep) returns: the next line is written
TaskSend(i) ==
    /\ InIO(i) /\ calls[i].sends # <<>>
    /\ Apply([World EXCEPT
                !.calls[i].sends = Tail(@),
                !.out = SendCommand(@, calls[i].deviceId, Head(calls[i].sends), i,
                                    calls[i].cmdName)])
    /\ UNCHANGED <<others, registry, safeModeEnabled, resultModal, deviceQueues, inp, sweeps,
                   metrics>>

\* withTimeout: may the pending readResponse still return '' of its own accord?
BlankInTime(c) == c.elapsed + ReadTimeoutMs <= defaultCommandTimeoutMs

\* a pending readResponse returns line (Blank: its own timeout expired)
TaskRead(i, line) ==
    /\ InIO(i) /\ calls[i].sends = <<>> /\ calls[i].toRead > 0
    /\ line = Blank => BlankInTime(calls[i])
    /\ LET c == calls[i]
           data == Append(c.data, line)
           w1 == [World EXCEPT
                     !.calls[i].data = data,
                     !.calls[i].toRead = @ - 1,
                     !.calls[i].elapsed =
                         IF c.path = "call" /\ line = Blank
                         THEN @ + ReadTimeoutMs ELSE @]
       IN  Apply(IF c.toRead = 1 THEN Drain(Finish(w1, i, TRUE, data)) ELSE w1)
    /\ inp' = [inp EXCEPT ![calls[i].deviceId] = Append(@, [by |-> i, line |-> line])]
    /\ UNCHANGED <<others, registry, safeModeEnabled, resultModal, deviceQueues, sweeps,
                   metrics>>

\* withTimeout's timer fires first: the task ends, the transport work it was
\* waiting for stays outstanding
TaskDeadline(i) ==
    /\ InIO(i) /\ calls[i].sends = <<>> /\ calls[i].toRead > 0
    /\ ~BlankInTime(calls[i])
    /\ LET c == calls[i]
           label == IF c.path = "call" THEN "call" ELSE "read"
           w1 == [World EXCEPT !.orphans = @ \cup
                     {[by |-> i, deviceId |-> c.deviceId,
                       toRead |-> IF c.path = "call" THEN c.toRead ELSE 1]}]
       IN  Apply(Drain(Catch(w1, i, [kind |-> "timeout", label |-> label])))
    /\ UNCHANGED <<others, registry, safeModeEnabled, resultModal, deviceQueues, inp, sweeps,
                   metrics>>

\* the await of the last write returns and nothing is left to read
TaskDone(i) ==
    /\ InIO(i) /\ calls[i].sends = <<>> /\ calls[i].toRead = 0
    /\ Apply(Drain(Finish(World, i, FALSE, <<>>)))
    /\ UNCHANGED <<others, registry, safeModeEnabled, resultModal, deviceQueues, inp, sweeps,
                   metrics>>

\* a readResponse nobody waits for any more returns
OrphanRead(o, line) ==
    /\ o \in orphans
    /\ orphans' = (orphans \ {o}) \cup
                  (IF o.toRead > 1 THEN {[o EXCEPT !.toRead = @ - 1]} ELSE {})
    /\ inp' = [inp EXCEPT ![o.deviceId] = Append(@, [by |-> o.by, line |-> line])]
    /\ UNCHANGED <<others, registry, lastCommand, lastStatus, safeModeEnabled, resultModal,
                   deviceQueues, calls, commandLog, out, metricsIntervalId, sweeps,
                   metrics>>

\* refreshLiveMetrics up to its first await: an empty connected map clears the
\* samples, otherwise the sweep walks a snapshot of the connected devices
RefreshLiveMetrics ==
    IF Len(connectedDevices) = 0
    THEN /\ metrics' = <<>>
         /\ UNCHANGED sweeps
    ELSE /\ sweeps' = Append(sweeps, [devs |-> connectedDevices, pc |-> "sleep",
                                      toRead |-> 0, resp |-> NullResp])
         /\ UNCHANGED metrics

\* the setInterval callback of ensureMetricsPolling
MetricsTick ==
    /\ metricsIntervalId
    /\ RefreshLiveMetrics
    /\ UNCHANGED <<others, registry, lastCommand, lastStatus, safeModeEnabled, resultModal,
                   deviceQueues, calls, orphans, commandLog, out, inp,
                   metricsIntervalId>>

ManualRefreshMetrics ==
    /\ RefreshLiveMetrics
    /\ UNCHANGED <<others, registry, lastCommand, lastStatus, safeModeEnabled, resultModal,
                   deviceQueues, calls, orphans, commandLog, out, inp,
                   metricsIntervalId>>

\* the sample refreshLiveMetrics stores from the getKW response; no catalog of
\* this model has getAll, getVolts, getVal, getBV or getCurrent, whose responses
\* are therefore null
Sample(kwResp) ==
    [volts |-> SanitizeMetricNumber("volts", Null),
     kw |-> SanitizeMetricNumber("kw", ParseFirstNumber(kwResp)),
     rawKw |-> ParseFirstNumber(kwResp)]

MetricsSet(m, deviceId, sample) ==
    [k \in DOMAIN m \cup {deviceId} |-> IF k = deviceId THEN sample ELSE m[k]]

\* by of a line written or read by sweep s
SweepBy(s) == 0 - s

\* the sweep ended by a device that returned no number
StoreOrStop(s, kwResp) ==
    /\ metrics' = MetricsSet(metrics, Head(sweeps[s].devs), Sample(kwResp))
    /\ sweeps' = [sweeps EXCEPT ![s].devs = IF ParseFirstNumber(kwResp).null
                                            THEN <<>> ELSE Tail(@),
                                ![s].pc = IF Len(sweeps[s].devs) = 1
                                             \/ ParseFirstNumber(kwResp).null
                                          THEN "done" ELSE "sleep",
                                ![s].toRead = 0, ![s].resp = NullResp]

\* the sample is stored and the loop goes on to the next device of the snapshot
StoreAndAdvance(s, kwResp) ==
    /\ metrics' = MetricsSet(metrics, Head(sweeps[s].devs), Sample(kwResp))
    /\ sweeps' = [sweeps EXCEPT ![s].devs = Tail(@),
                                ![s].pc = IF Len(sweeps[s].devs) = 1 THEN "done" ELSE "sleep",
                                ![s].toRead = 0, ![s].resp = NullResp]

\* sleep(300) returns: safeCall(dev, 'getKW') if the device has it
SweepCall(s) ==
    /\ s \in 1..Len(sweeps) /\ sweeps[s].pc = "sleep"
    /\ LET d == Head(sweeps[s].devs)
           plan == CallPlan(cmds[d], getKW)
       IN  IF getKW \in DOMAIN cmds[d]
           THEN /\ out' = SendCommand(out, d, getKW, SweepBy(s), getKW)
                /\ sweeps' = [sweeps EXCEPT ![s].pc = "call", ![s].toRead = plan.reads,
                                            ![s].resp = IF plan.returnsData
                                                        THEN ArrayResp(<<>>) ELSE NullResp]
                /\ UNCHANGED metrics
           ELSE /\ StoreAndAdvance(s, NullResp)
                /\ UNCHANGED out
    /\ UNCHANGED <<others, registry, lastCommand, lastStatus, safeModeEnabled, resultModal,
                   deviceQueues, calls, orphans, commandLog, inp, metricsIntervalId>>

\* a readResponse of the sweep's call returns; the call has no deadline
SweepRead(s, line) ==
    /\ s \in 1..Len(sweeps) /\ sweeps[s].pc = "call" /\ sweeps[s].toRead > 0
    /\ sweeps' = [sweeps EXCEPT ![s].toRead = @ - 1,
                                ![s].resp = ArrayResp(Append(@.lines, line)),
                                ![s].pc = IF sweeps[s].toRead = 1 THEN "pause" ELSE "call"]
    /\ inp' = [inp EXCEPT ![Head(sweeps[s].devs)] =
                  Append(@, [by |-> SweepBy(s), line |-> line])]
    /\ UNCHANGED <<others, registry, lastCommand, lastStatus, safeModeEnabled, resultModal,
                   deviceQueues, calls, orphans, commandLog, out, metricsIntervalId,
                   metrics>>

\* the write of a call that reads nothing returns
SweepCallDone(s) ==
    /\ s \in 1..Len(sweeps) /\ sweeps[s].pc = "call" /\ sweeps[s].toRead = 0
    /\ sweeps' = [sweeps EXCEPT ![s].pc = "pause"]
    /\ UNCHANGED <<others, registry, lastCommand, lastStatus, safeModeEnabled, resultModal,
                   deviceQueues, calls, orphans, commandLog, out, inp,
                   metricsIntervalId, metrics>>

\* sleep(100) returns: the sample is stored, the sweep moves to the next device
SweepStore(s) ==
    /\ s \in 1..Len(sweeps) /\ sweeps[s].pc = "pause"
    /\ StoreAndAdvance(s, sweeps[s].resp)
    /\ UNCHANGED <<others, registry, lastCommand, lastStatus, safeModeEnabled, resultModal,
                   deviceQueues, calls, orphans, commandLog, out, inp,
                   metricsIntervalId>>

Next ==
    \/ \E b \in BOOLEAN : SetSafeModeEnabled(b)
    \/ /\ Len(calls) < MaxCalls
       /\ \E d \in DeviceIds, n \in CmdNames : \E o \in Options(d, n) :
             ExecuteCommand(d, n, o.args, o.prompt, o.reply)
    \/ /\ Len(calls) < MaxCalls
       /\ \E d \in DeviceIds, f \in BOOLEAN : EnqueueTask(d, f)
    \/ \E i \in 1..MaxCalls : TaskSettle(i)
    \/ \E i \in 1..MaxCalls : TaskSend(i)
    \/ \E i \in 1..MaxCalls, l \in DeviceLines \cup {Blank} : TaskRead(i, l)
    \/ \E i \in 1..MaxCalls : TaskDeadline(i)
    \/ \E i \in 1..MaxCalls : TaskDone(i)
    \/ \E o \in orphans, l \in DeviceLines \cup {Blank} : OrphanRead(o, l)

Spec == Init /\ [][Next]_vars

\* the command pipeline together with the telemetry poller
InitPoll == Init /\ ~safeModeEnabled /\ resultModal

NextPoll ==
    \/ \E d \in DeviceIds : MoveDevice(d, "available")
    \/ \E d \in DeviceIds : OnPortDisconnect(d)
    \/ Len(sweeps) < MaxSweeps /\ MetricsTick
    \/ Len(sweeps) < MaxSweeps /\ ManualRefreshMetrics
    \/ \E s \in 1..MaxSweeps : SweepCall(s)
    \/ \E s \in 1..MaxSweeps, l \in DeviceLines \cup {Blank} : SweepRead(s, l)
    \/ \E s \in 1..MaxSweeps : SweepCallDone(s)
    \/ \E s \in 1..MaxSweeps : SweepStore(s)
    \/ /\ Len(calls) < MaxPollCalls
       /\ \E d \in DeviceIds, n \in CmdNames : \E o \in Options(d, n) :
             ExecuteCommand(d, n, o.args, o.prompt, o.reply)
    \/ \E i \in 1..MaxCalls : TaskSend(i)
    \/ \E i \in 1..MaxCalls, l \in DeviceLines \cup {Blank} : TaskRead(i, l)
    \/ \E i \in 1..MaxCalls : TaskDeadline(i)
    \/ \E i \in 1..MaxCalls : TaskDone(i)
    \/ \E o \in orphans, l \in DeviceLines \cup {Blank} : OrphanRead(o, l)

SpecPoll == InitPoll /\ [][NextPoll]_vars

\* the timers and the transport of a sweep always come back: sleep resolves,
\* a write returns, and readResponse returns a line or, after its timeout, ''
SweepStep ==
    \/ \E s \in 1..MaxSweeps : SweepCall(s)
    \/ \E s \in 1..MaxSweeps, l \in DeviceLines \cup {Blank} : SweepRead(s, l)
    \/ \E s \in 1..MaxSweeps : SweepCallDone(s)
    \/ \E s \in 1..MaxSweeps : SweepStore(s)

\* the poller alone, while boards are moved away or unplugged
NextSweep ==
    \/ \E d \in DeviceIds : MoveDevice(d, "available")
    \/ \E d \in DeviceIds : OnPortDisconnect(d)
    \/ Len(sweeps) < MaxSweeps /\ MetricsTick
    \/ Len(sweeps) < MaxSweeps /\ ManualRefreshMetrics
    \/ \E s \in 1..MaxSweeps : SweepCall(s)
    \/ \E s \in 1..MaxSweeps, l \in DeviceLines \cup {Blank} : SweepRead(s, l)
    \/ \E s \in 1..MaxSweeps : SweepCallDone(s)
    \/ \E s \in 1..MaxSweeps : SweepStore(s)

SpecSweep == InitPoll /\ [][NextSweep]_vars

\* toggleMetricsPause: Resume calls ensureMetricsPolling, Pause calls
\* stopMetricsPolling
ToggleMetricsPause ==
    /\ metricsPaused' = ~metricsPaused
    /\ metricsIntervalId' = metricsPaused
    /\ UNCHANGED <<discovery, graph, tmCaps, tmPc, tmResp, autoEst, estimated, lastInput,
                   metricsHistory, filtered, registry, lastCommand, lastStatus,
                   safeModeEnabled, resultModal, deviceQueues, calls, orphans,
                   commandLog, out, inp, sweeps, metrics>>

\* the poller with its Pause button, while boards are moved between the lists
\* and a command is executed
NextPause ==
    \/ ToggleMetricsPause
    \/ \E d \in DeviceIds, t \in {"available", "connected"} : MoveDevice(d, t)
    \/ Len(sweeps) < MaxSweeps /\ MetricsTick
    \/ Len(sweeps) < MaxSweeps /\ ManualRefreshMetrics
    \/ SweepStep
    \/ /\ Len(calls) < MaxPollCalls
       /\ \E d \in DeviceIds : ExecuteCommand(d, getKW, NoArgs, "null", ReplyEmpty)
    \/ \E i \in 1..MaxCalls, l \in DeviceLines \cup {Blank} : TaskRead(i, l)
    \/ \E i \in 1..MaxCalls : TaskDone(i)

SpecPause == InitPoll /\ [][NextPause]_vars


SpecSweepFair == SpecSweep /\ WF_vars(SweepStep)

\* the interval fires and the Refresh button is clicked while earlier sweeps
\* are still walking the connected devices
NextOverlap ==
    \/ Len(sweeps) < MaxOverlap /\ MetricsTick
    \/ Len(sweeps) < MaxOverlap /\ ManualRefreshMetrics
    \/ \E s \in 1..MaxOverlap : SweepCall(s)
    \/ \E s \in 1..MaxOverlap, l \in DeviceLines \cup {Blank} : SweepRead(s, l)
    \/ \E s \in 1..MaxOverlap : SweepCallDone(s)
    \/ \E s \in 1..MaxOverlap : SweepStore(s)

SpecOverlap == InitPoll /\ [][NextOverlap]_vars

\* ------------------------------------------------------- discovery actions
Scripts ==
    [prefix : UNION {[1..k -> SigLines \cup {Blank}] : k \in 0..MaxPrefix},
     tail : Tails, delay : Delays]

\* setupCommands -> getCommands up to the first readResponse
GetCommandsStart ==
    /\ gcPc = "idle"
    /\ gcOut' = Append(gcOut, getCommandsLine)
    /\ gcNow' = FirstSleepMs
    /\ gcPc' = "read"
    /\ UNCHANGED <<manager, telemetry, graph, gcScript, gcPos, gcLines, gcBlankStreak, gcIn, gcSetupAt,
                   gcCmds>>

\* getCommands returns lines to setupCommands
GetCommandsReturn(now, streak) ==
    /\ gcPc' = IF gcLines = <<>> THEN "done" ELSE "setup"
    /\ gcNow' = now
    /\ gcBlankStreak' = streak
    /\ UNCHANGED <<gcLines, gcOut>>

\* the pending readResponse returns; getCommands runs on to its next
\* readResponse or to its end
GetCommandsRead ==
    /\ gcPc = "read"
    /\ LET r == Reply(gcScript, gcPos,
                      IF gcPos = 0 THEN FirstReadTimeoutMs ELSE ReadTimeoutMs)
           cmdName == r.line
           now == gcNow + r.dt
       IN  /\ gcIn' = Append(gcIn, cmdName)
           /\ gcPos' = gcPos + 1
           /\ IF ~LoopContinues(now, Len(gcLines))
              THEN GetCommandsReturn(now, gcBlankStreak)
              ELSE IF cmdName = Blank
              THEN IF gcBlankStreak + 1 >= maxBlankStreak
                   THEN GetCommandsReturn(now, gcBlankStreak + 1)
                   ELSE /\ gcBlankStreak' = gcBlankStreak + 1
                        /\ gcNow' = now + BlankSleepMs
                        /\ UNCHANGED <<gcPc, gcLines, gcOut>>
              ELSE IF IsEoc(cmdName)
              THEN GetCommandsReturn(now, 0)
              ELSE /\ gcBlankStreak' = 0
                   /\ gcLines' = Append(gcLines, cmdName)
                   /\ gcOut' = Append(gcOut, cmdName)
                   /\ gcNow' = now + EchoSleepMs
                   /\ UNCHANGED gcPc
    /\ UNCHANGED <<manager, telemetry, graph, gcScript, gcSetupAt, gcCmds>>

\* setupCommands: the next line of raw goes into this.cmds; after the last
\* one setupCommands returns
SetupCommandsStep ==
    /\ gcPc = "setup"
    /\ gcCmds' = SetupCommand(gcCmds, gcLines[gcSetupAt + 1])
    /\ gcSetupAt' = gcSetupAt + 1
    /\ gcPc' = IF gcSetupAt + 1 = Len(gcLines) THEN "done" ELSE "setup"
    /\ UNCHANGED <<manager, telemetry, graph, gcScript, gcPos, gcLines, gcBlankStreak, gcNow, gcOut,
                   gcIn>>

InitDisc ==
    /\ ManagerInit /\ ~safeModeEnabled /\ resultModal
    /\ gcScript \in Scripts
    /\ DiscoveryIdle
    /\ TelemetryIdle /\ EstimateIdle
    /\ devName = [d \in DeviceIds |-> DefaultNames[(d % 3) + 1]]
    /\ powerEst = [d \in DeviceIds |-> Null]
    /\ GraphIdle

NextDisc ==
    \/ GetCommandsStart
    \/ GetCommandsRead
    \/ SetupCommandsStep

SpecDisc == InitDisc /\ [][NextDisc]_vars

\* every timer of getCommands fires, every readResponse returns and the loop
\* of setupCommands runs on
SpecDiscFair == SpecDisc /\ WF_vars(NextDisc)

\* ------------------------------------------------------- telemetry actions
\* refreshLiveMetrics, one turn of its loop: sleep(300) returns and caps is computed
TelemetryStart ==
    /\ tmPc = 0
    /\ tmPc' = 1
    /\ UNCHANGED <<manager, discovery, graph, estimate, tmCaps, tmResp>>

\* caps.X ? await this.safeCall(dev, X) : null, for the next command
TelemetryCall(resp) ==
    /\ tmPc \in 1..Len(TelemetryCmds)
    /\ resp \in (IF TelemetryCmds[tmPc] \in tmCaps
                 THEN Responses(TelemetryCmds[tmPc]) ELSE {NullResp})
    /\ tmResp' = Append(tmResp, resp)
    /\ tmPc' = tmPc + 1
    /\ UNCHANGED <<manager, discovery, graph, estimate, tmCaps>>

\* the values are parsed and sanitized and the sample is stored
TelemetryStore ==
    /\ tmPc = Len(TelemetryCmds) + 1
    /\ metrics' = MetricsSet(metrics, TelemetryDevice, Metric(tmResp))
    /\ tmPc' = tmPc + 1
    /\ UNCHANGED <<discovery, graph, estimate, tmCaps, tmResp, registry, lastCommand, lastStatus, safeModeEnabled, resultModal,
                   deviceQueues, calls, orphans, commandLog, out, inp, metricsIntervalId,
                   sweeps>>

InitMetric ==
    /\ ManagerInit /\ ~safeModeEnabled /\ resultModal
    /\ gcScript = IdleScript
    /\ DiscoveryIdle
    /\ tmCaps \in SUBSET {TelemetryCmds[k] : k \in 1..Len(TelemetryCmds)}
    /\ EstimateIdle
    /\ tmPc = 0
    /\ tmResp = <<>>
    /\ devName = [d \in DeviceIds |-> DefaultNames[(d % 3) + 1]]
    /\ powerEst = [d \in DeviceIds |-> Null]
    /\ GraphIdle

NextMetric ==
    \/ TelemetryStart
    \/ \E cmd \in {TelemetryCmds[k] : k \in 1..Len(TelemetryCmds)} :
          \E resp \in Responses(cmd) : TelemetryCall(resp)
    \/ TelemetryStore

SpecMetric == InitMetric /\ [][NextMetric]_vars

\* ------------------------------------------------------- diagram actions
\* setGeneratorLoad(deviceId, value), what it does to the manager's variables:
\* nothing for a device that is not connected or a value that is not a number
\* or is negative, else executeCommand with the value as its only argument
\* (options.prompt is left undefined)
SetGeneratorLoadIn(deviceId, value) ==
    IF ~Has(connectedDevices, deviceId) THEN UNCHANGED manager
    ELSE IF ~IsValidKW(value) THEN UNCHANGED manager
    ELSE ExecuteCommandIn(deviceId, setLoad,
                          [given |-> TRUE, list |-> <<NumberString(value.milli)>>],
                          "ask", ReplyEmpty)

\* setGeneratorLoad: the toast it shows
SetGeneratorLoadToast(deviceId, value) ==
    IF ~Has(connectedDevices, deviceId) THEN "Connect the generator first"
    ELSE IF ~IsValidKW(value) THEN "Invalid generator load value"
    ELSE ""

\* the invocations setGeneratorLoad made for device d that have returned
ReturnedSetLoads(d) ==
    {i \in 1..Len(calls) : /\ calls[i].deviceId = d
                           /\ calls[i].cmdName = setLoad
                           /\ calls[i].optArgs.given /\ calls[i].prompt = "ask"
                           /\ calls[i].state \in Settled}

\* lastSetLoadByDeviceId.get(d): setGeneratorLoad records the value when its
\* executeCommand has returned, whatever became of the command; <<>> if none
LastSetLoadByDeviceId(d) ==
    IF ReturnedSetLoads(d) = {} THEN <<>>
    ELSE calls[CHOOSE i \in ReturnedSetLoads(d) :
                   \A j \in ReturnedSetLoads(d) : j <= i].optArgs.list[1]

\* the load buttons and the Apply button of the generator card
SetGeneratorLoad(deviceId, value) ==
    /\ SetGeneratorLoadIn(deviceId, value)
    /\ lastInput' = [handler |-> "setGeneratorLoad", value |-> value,
                     toast |-> SetGeneratorLoadToast(deviceId, value)]
    /\ UNCHANGED <<discovery, graph, tmCaps, tmPc, tmResp, autoEst, estimated, panel>>

\* normalizeConnections() on its own; localStorage keeps the list that was loaded
NormalizeConnectionsCall ==
    /\ connections' = NormalizeConnections(connections, connectedDevices, availableDevices)
    /\ UNCHANGED <<manager, discovery, telemetry, devName, powerEst, connStored,
                   connPendingFrom, connLoaded, mode2>>

\* edge lists normalizeConnections may be handed: edges between the boards and
\* to a board that is gone, pairs repeated with another kw, in any order
StoredEdges ==
    {Edge(GetConnDiagramId(0), GetConnDiagramId(1), kw) : kw \in {Null, Num(1000), Num(2000)}}
    \cup {Edge(GetConnDiagramId(1), GetConnDiagramId(0), Num(1000)),
          Edge(GetConnDiagramId(0), StaleId, Num(1000)),
          Edge(GetConnDiagramId(2), GetConnDiagramId(1), Num(1000))}
StoredLists == UNION {[1..n -> StoredEdges] : n \in 0..MaxStored}

InitNorm ==
    /\ ManagerInit /\ ~safeModeEnabled /\ resultModal
    /\ gcScript = IdleScript /\ DiscoveryIdle /\ TelemetryIdle /\ EstimateIdle
    /\ devName = [d \in DeviceIds |-> DefaultNames[(d % 3) + 1]]
    /\ powerEst = [d \in DeviceIds |-> Null]
    /\ connections \in StoredLists
    /\ connStored = connections
    /\ connPendingFrom = ""
    /\ connLoaded = connections
    /\ mode2 = Mode2Idle

\* normalizeConnections is applied to the list as loaded, or a board is moved
\* or unplugged and updateUI renders the diagram
NextNorm ==
    \/ NormalizeConnectionsCall
    \/ \E d \in DeviceIds : MoveDevice(d, "available")
    \/ \E d \in DeviceIds : OnPortDisconnect(d)

SpecNorm == InitNorm /\ [][NextNorm]_vars

\* loadConnections: the stored array, every entry with fromId, toId and kw (a
\* finite number or null) and the entries without an endpoint left out
LoadConnections(stored) ==
    SelectSeq([k \in 1..Len(stored) |->
                  Edge(stored[k].fromId, stored[k].toId,
                       IF stored[k].kw.null THEN Null ELSE Num(stored[k].kw.milli))],
              LAMBDA e : e.fromId # "" /\ e.toId # "")

\* the page is reloaded: the constructor reads the stored list and calls init,
\* whose updateUI stops the poller and renders the diagram (normalizeConnections,
\* saveConnections) while no board has been scanned yet
Reload ==
    /\ calls = <<>> /\ sweeps = <<>>
    /\ availableDevices' = <<>>
    /\ connectedDevices' = <<>>
    /\ deviceIdCounter' = 0
    /\ metricsIntervalId' = FALSE
    /\ connLoaded' = LoadConnections(connStored)
    /\ connections' = NormalizeConnections(connLoaded', connectedDevices',
                                           availableDevices')
    /\ connStored' = connections'
    /\ connPendingFrom' = ""
    /\ mode2' = Mode2Idle
    /\ UNCHANGED <<discovery, telemetry, devName, powerEst, cmds, lastCommand, lastStatus,
                   safeModeEnabled, resultModal, deviceQueues, calls, orphans,
                   commandLog, out, inp, sweeps, metrics>>

\* applyConnectionsMode2 without its guard
InFlightNever == FALSE

\* this._connMode2InFlight: set while applyConnectionsMode2 waits for the
\* setLoad it dispatched; its finally block runs in the turn that settles the call
ConnMode2InFlight ==
    mode2.waiting # 0 /\ calls[mode2.waiting].state \notin Settled

\* this._connMode2LastApplied: assigned after the await of setGeneratorLoad, in
\* the turn that settles the call
ConnMode2LastApplied ==
    IF mode2.waiting # 0 /\ calls[mode2.waiting].state \in Settled
    THEN mode2.pending ELSE mode2.last

\* the block every diagram handler ends with: saveConnections, renderConnections
\* (normalizeConnections, saveConnections)
SaveAndRender(es) ==
    /\ connections' = NormalizeConnections(es, connectedDevices, availableDevices)
    /\ connStored' = connections'

All == AllDevices(connectedDevices, availableDevices)

\* every handler that changes the boards or the edges ends in renderConnections,
\* so the renderConnections inside executeCommand's updateUI finds the list
\* normalized and saved and changes nothing
ConnectionsRendered ==
    /\ connections = NormalizeConnections(connections, connectedDevices,
                                          availableDevices)
    /\ connStored = connections

\* applyConnectionsMode2 without its safe mode exit
SafeModeIgnored(enabled) == FALSE

\* applyConnectionsMode2: if (this.safeModeEnabled) return, after the status line
SafeModeReturns(enabled) == enabled

\* applyConnectionsMode2 with this.connections = es, up to its first await
Mode2Call(es) ==
    LET gens == ConnectedGenerators(connectedDevices, devName, cmds)
        last == ConnMode2LastApplied
        c == ComputeMode2TargetKW(es, All, devName, powerEst)
        gen == gens[1]
        targetRounded == Round2(TargetKW(c.deficitKW, powerEst[gen]))
        isSameTarget == /\ last.set /\ last.genId = gen
                        /\ WithinCent(last.targetKW, targetRounded)
        report == [set |-> TRUE, demandKW |-> c.demandKW,
                   otherSupplyKW |-> c.otherSupplyKW, targetKW |-> targetRounded,
                   notice |-> IF Len(gens) > 1 THEN "multiple generators" ELSE ""]
        hasDiagramGen == \E k \in 1..Len(All) : IsGenerator(devName[All[k]])
    IN  IF ConnMode2InFlight
        THEN UNCHANGED <<manager, mode2>>
        ELSE IF gens = <<>>
        THEN /\ mode2' = [waiting |-> 0, pending |-> NoTarget, last |-> last,
                          report |-> [NoReport EXCEPT !.notice =
                                         IF hasDiagramGen THEN "generator not connected"
                                         ELSE "no generator"]]
             /\ UNCHANGED manager
        ELSE IF SafeModeReturns(safeModeEnabled) \/ isSameTarget
        THEN /\ mode2' = [waiting |-> 0, pending |-> NoTarget, last |-> last,
                          report |-> report]
             /\ UNCHANGED manager
        ELSE /\ mode2' = [waiting |-> Len(calls) + 1,
                          pending |-> [set |-> TRUE, genId |-> gen,
                                       targetKW |-> targetRounded],
                          last |-> last, report |-> report]
             /\ SetGeneratorLoadIn(gen, Given(targetRounded))

\* the Apply Mode 2 button and the auto loop
ApplyConnectionsMode2 ==
    /\ Mode2Call(connections)
    /\ UNCHANGED <<discovery, telemetry, devName, powerEst, connections, connStored,
                   connPendingFrom, connLoaded>>

\* pointerdown on the block of device d in the diagram
ConnPointerDown(d) ==
    /\ \E k \in 1..Len(All) : All[k] = d
    /\ IF DeviceType(devName[d]) = "provider"
       THEN /\ connPendingFrom' = IF connPendingFrom = GetConnDiagramId(d) THEN ""
                                  ELSE GetConnDiagramId(d)
            /\ SaveAndRender(connections)
       ELSE IF connPendingFrom = ""
       THEN UNCHANGED <<connPendingFrom, connections, connStored>>
       ELSE /\ connections' =
                   ConnectEdge(connections, connPendingFrom, GetConnDiagramId(d),
                               Num(AutoAssignConnectionKW(connections, connPendingFrom,
                                       GetConnDiagramId(d), All, powerEst)),
                               connectedDevices, availableDevices)
            /\ connStored' = connections'
            /\ UNCHANGED connPendingFrom
    /\ UNCHANGED <<manager, discovery, telemetry, devName, powerEst, connLoaded, mode2>>

\* click on Clear; ok is the operator's answer to window.confirm
ClearConnections(ok) ==
    /\ IF ok
       THEN /\ connPendingFrom' = ""
            /\ SaveAndRender(<<>>)
       ELSE UNCHANGED <<connPendingFrom, connections, connStored>>
    /\ UNCHANGED <<manager, discovery, telemetry, devName, powerEst, connLoaded, mode2>>

\* what the operator answers to the prompt of editConnectionKW: Cancel, a text
\* that is no number, or a number; the diagram is edited with 2.504
EditCancel == [kind |-> "cancel", milli |-> 0]
EditInvalid == NotANumber
EditReplies == {[kind |-> "number", milli |-> 2504]}

\* editConnectionKW(fromId, toId), called from the label of edge k
EditConnectionKW(k, raw) ==
    /\ k \in 1..Len(connections)
    /\ IF raw.kind = "cancel" \/ ~IsValidKW(raw)
       THEN UNCHANGED <<connections, connStored>>
       ELSE SaveAndRender(SetEdgeKW(connections, connections[k].fromId,
                                    connections[k].toId, Num(Round2(raw.milli))))
    /\ lastInput' = [handler |-> "editConnectionKW", value |-> raw,
                     toast |-> IF raw.kind # "cancel" /\ ~IsValidKW(raw)
                               THEN "Invalid kW value" ELSE ""]
    /\ UNCHANGED <<manager, discovery, tmCaps, tmPc, tmResp, autoEst, estimated, panel,
                   devName, powerEst, connPendingFrom, connLoaded, mode2>>

\* removeConnection(fromId, toId), called from the remove button of edge k
RemoveConnection(k) ==
    /\ k \in 1..Len(connections)
    /\ SaveAndRender(SelectSeq(connections,
                               LAMBDA e : ~(e.fromId = connections[k].fromId
                                            /\ e.toId = connections[k].toId)))
    /\ UNCHANGED <<manager, discovery, telemetry, devName, powerEst, connPendingFrom, connLoaded,
                   mode2>>

\* applySurplusToCVT; targetId is the value of the select, surplus is
\* max(0, latestEstimatedSupplyKW - latestEstimatedDemandKW) in thousandths
ApplySurplusToCVT(targetId, surplus) ==
    LET provider == PreferredProvider(All, devName)
        providerId == GetConnDiagramId(provider)
        target == FirstWhere(All, LAMBDA d : GetConnDiagramId(d) = targetId)
    IN  IF targetId = "" \/ surplus <= 0 \/ provider < 0
        THEN UNCHANGED vars
        ELSE /\ SaveAndRender(IF HasEdge(connections, providerId, targetId)
                              THEN SetEdgeKW(connections, providerId, targetId,
                                             Num(surplus))
                              ELSE Append(connections,
                                          Edge(providerId, targetId, Num(surplus))))
             /\ IF target >= 0 /\ Has(connectedDevices, target)
                   /\ setLoad \in DOMAIN cmds[target]
                THEN ExecuteCommandIn(target, setLoad,
                                      [given |-> TRUE, list |-> <<ToFixed2(surplus)>>],
                                      "null", ReplyEmpty)
                ELSE UNCHANGED manager
             /\ UNCHANGED <<discovery, telemetry, devName, powerEst, connPendingFrom, connLoaded,
                            mode2>>

\* applyAllDemandRequests with this.demandRequests = reqs
ApplyAllDemandRequests(reqs) ==
    IF ValidRequests(reqs) = <<>>
    THEN UNCHANGED vars
    ELSE /\ SaveAndRender(ApplyRequests(connections, ValidRequests(reqs), All, devName))
         /\ Mode2Call(connections')
         /\ UNCHANGED <<discovery, telemetry, devName, powerEst, connPendingFrom, connLoaded>>

\* the rows of the demand request panel: a consumer of the diagram or one of
\* an earlier session, and the power asked for, in thousandths
RequestRows ==
    {[consumerId |-> c, powerKW |-> p] :
        c \in {GetConnDiagramId(d) : d \in {e \in DeviceIds :
                                               DeviceType(devName[e]) = "consumer"}}
              \cup {StaleId},
        p \in {0, 10000}}
RequestLists == {<<r>> : r \in RequestRows}
                \cup {<<r, [consumerId |-> StaleId, powerKW |-> 10000]>> :
                         r \in RequestRows}

\* latestEstimatedSupplyKW - latestEstimatedDemandKW as updateUI last computed it
Surpluses == {0, 2500}

\* the board identifyDevice named generator
Generator == 0

\* three boards are connected: a generator, a solar tracker or a CVT, and a
\* house load; the operator has entered the capacity of the second board and the
\* rating of the house load, and may have entered the capacity of the generator,
\* which computeEstimatedKW turns into kW; safe mode is off
InitGraph ==
    /\ ManagerInit /\ ~safeModeEnabled /\ resultModal
    /\ gcScript = IdleScript /\ DiscoveryIdle /\ TelemetryIdle /\ EstimateIdle
    /\ devName \in {[d \in DeviceIds |-> <<"generator", b, "houseload">>[(d % 3) + 1]] :
                       b \in {"solartracker", "cvt"}}
    /\ powerEst \in {[d \in DeviceIds |-> <<a, Num(4000), Num(2000)>>[(d % 3) + 1]] :
                        a \in {Null, Num(3000)}}
    /\ GraphIdle

\* the diagram's handlers, the boards that leave, and the progress of the setLoad
\* calls the handlers dispatch; these calls carry their argument, so each of
\* their reads returns before withTimeout's timer
NextGraph ==
    \/ \E d \in DeviceIds : ConnPointerDown(d)
    \/ \E ok \in BOOLEAN : ClearConnections(ok)
    \/ \E k \in 1..MaxDevices, raw \in EditReplies : EditConnectionKW(k, raw)
    \/ \E k \in 1..MaxDevices : RemoveConnection(k)
    \/ /\ Len(calls) < MaxCalls
       /\ \E t \in SurplusTargets(All, devName) \cup {StaleId}, s \in Surpluses :
             ApplySurplusToCVT(t, s)
    \/ /\ Len(calls) < MaxCalls
       /\ \E reqs \in RequestLists : ApplyAllDemandRequests(reqs)
    \/ Len(calls) < MaxCalls /\ ApplyConnectionsMode2
    \/ MoveDevice(Generator, "available")
    \/ \E d \in DeviceIds : OnPortDisconnect(d)
    \/ \E i \in 1..MaxCalls : TaskSend(i)
    \/ \E i \in 1..MaxCalls, l \in DeviceLines \cup {Blank} : TaskRead(i, l)
    \/ \E i \in 1..MaxCalls : TaskDone(i)

SpecGraph == InitGraph /\ [][NextGraph]_vars

\* Mode 2 on its own: the first board is a generator, the second a CVT, the
\* third a house load or a second generator; a demand request batch wires the
\* CVT, the operator edits the power of the edge and runs Mode 2 by the button
\* or the auto loop
Mode2Edits == {EditInvalid, [kind |-> "number", milli |-> 2496],
               [kind |-> "number", milli |-> 2506]}

Mode2Requests == {<<[consumerId |-> GetConnDiagramId(1), powerKW |-> 10000]>>}

InitMode2 ==
    /\ ManagerInit /\ resultModal
    /\ gcScript = IdleScript /\ DiscoveryIdle /\ TelemetryIdle /\ EstimateIdle
    /\ devName \in {[d \in DeviceIds |-> <<"generator", "cvt", c>>[(d % 3) + 1]] :
                       c \in {"houseload", "generator"}}
    /\ powerEst = [d \in DeviceIds |-> <<Null, Num(4000), Null>>[(d % 3) + 1]]
    /\ GraphIdle

\* the setLoad calls Mode 2 dispatches go to a generator, whose hardcoded
\* catalog has no output lines: they write their lines and end without a read
NextMode2 ==
    \/ \E k \in 1..MaxDevices, raw \in Mode2Edits : EditConnectionKW(k, raw)
    \/ ApplyConnectionsMode2 /\ Len(calls') <= MaxCalls
    \/ /\ \E reqs \in Mode2Requests : ApplyAllDemandRequests(reqs)
       /\ Len(calls') <= MaxCalls
    \/ \E d \in {e \in DeviceIds : IsGenerator(devName[e])} : MoveDevice(d, "available")
    \/ \E d \in {e \in DeviceIds : IsGenerator(devName[e])} : OnPortDisconnect(d)
    \/ \E b \in BOOLEAN : SetSafeModeEnabled(b)
    \/ \E i \in 1..MaxCalls : TaskSend(i)
    \/ \E i \in 1..MaxCalls : TaskDone(i)

SpecMode2 == InitMode2 /\ [][NextMode2]_vars

\* Mode 2 on a page that may lack the result modal, where showCommandResult
\* throws after the lines were written and executeCommand's catch block runs;
\* safe mode is off
InitApply ==
    /\ ManagerInit /\ ~safeModeEnabled
    /\ gcScript = IdleScript /\ DiscoveryIdle /\ TelemetryIdle /\ EstimateIdle
    /\ devName = [d \in DeviceIds |-> <<"generator", "cvt", "houseload">>[(d % 3) + 1]]
    /\ powerEst = [d \in DeviceIds |-> <<Null, Num(4000), Null>>[(d % 3) + 1]]
    /\ GraphIdle

SpecApply == InitApply /\ [][NextMode2]_vars

\* the setInterval callback of updateConnAutoMode2Timer
Mode2AutoTick == ApplyConnectionsMode2 /\ Len(calls') <= MaxCalls

\* the auto loop is on and safe mode is off; the generator feeds the CVT
\* through one edge of 2.50 kW, which the operator edits
InitAuto ==
    /\ ManagerInit /\ ~safeModeEnabled /\ resultModal
    /\ gcScript = IdleScript /\ DiscoveryIdle /\ TelemetryIdle /\ EstimateIdle
    /\ devName = [d \in DeviceIds |-> <<"generator", "cvt", "houseload">>[(d % 3) + 1]]
    /\ powerEst = [d \in DeviceIds |-> <<Null, Num(4000), Null>>[(d % 3) + 1]]
    /\ connections = <<Edge(GetConnDiagramId(0), GetConnDiagramId(1), Num(2500))>>
    /\ connStored = connections
    /\ connPendingFrom = ""
    /\ connLoaded = <<>>
    /\ mode2 = Mode2Idle

\* the values the operator gives the edge: 2.50, 2.51, 3 and 4 kW, or no number
AutoEdits == Mode2Edits \cup {[kind |-> "number", milli |-> 3000],
                            [kind |-> "number", milli |-> 4000]}

NextAuto ==
    \/ \E k \in 1..MaxDevices, raw \in AutoEdits : EditConnectionKW(k, raw)
    \/ Mode2AutoTick
    \/ \E i \in 1..MaxCalls : TaskSend(i)
    \/ \E i \in 1..MaxCalls : TaskDone(i)

\* the interval keeps firing, a write returns, and the sleep after it ends
SpecAuto ==
    /\ InitAuto /\ [][NextAuto]_vars
    /\ WF_vars(Mode2AutoTick)
    /\ WF_vars(\E i \in 1..MaxCalls : TaskSend(i))
    /\ WF_vars(\E i \in 1..MaxCalls : TaskDone(i))

\* what the operator types or clicks: no number, a negative number, 0, 3 kW
InputValues == {NotANumber, Given(0 - 1000), Given(0), Given(3000)}

\* the diagram and the generator card under the operator's inputs
InitInput ==
    /\ ManagerInit /\ resultModal
    /\ gcScript = IdleScript /\ DiscoveryIdle /\ TelemetryIdle /\ EstimateIdle
    /\ devName = [d \in DeviceIds |-> DefaultNames[(d % 3) + 1]]
    /\ powerEst = [d \in DeviceIds |-> Null]
    /\ GraphIdle

NextInput ==
    \/ \E d \in DeviceIds : ConnPointerDown(d)
    \/ \E k \in 1..MaxDevices, raw \in InputValues \cup {EditCancel} :
          EditConnectionKW(k, raw)
    \/ /\ \E v \in InputValues : SetGeneratorLoad(Generator, v)
       /\ Len(calls') <= MaxCalls
    \/ MoveDevice(Generator, "available")
    \/ \E b \in BOOLEAN : SetSafeModeEnabled(b)
    \/ \E i \in 1..MaxCalls : TaskSend(i)
    \/ \E i \in 1..MaxCalls : TaskDone(i)

SpecInput == InitInput /\ [][NextInput]_vars

\* the values the operator gives an edge before the reload
RestartEdits == {[kind |-> "number", milli |-> 1000]}

\* the operator wires the diagram and reloads the page; the boards are then
\* scanned again in the same order, which gives them the same ids, and moved
\* to the connected list, and the operator leaves the diagram alone
NextRestart ==
    \/ connLoaded = <<>> /\ \E d \in DeviceIds : ConnPointerDown(d)
    \/ connLoaded = <<>> /\ \E k \in 1..MaxDevices, raw \in RestartEdits :
                               EditConnectionKW(k, raw)
    \/ Reload
    \/ ScanDevices(ScannedCatalog(deviceIdCounter))
    \/ \E d \in DeviceIds : MoveDevice(d, "connected")

SpecRestart == InitInput /\ [][NextRestart]_vars

\* ------------------------------------------------------- estimate actions
\* renderMetrics, the balance strip: the totals of the table go to inferDemandKW
RenderMetrics(totalSupplyKW, totalDemandKW) ==
    /\ autoEst.calls < MaxEvals
    /\ autoEst' = InferDemandKW(autoEst, totalSupplyKW, totalDemandKW)
    /\ UNCHANGED <<manager, discovery, graph, tmCaps, tmPc, tmResp, estimated, panel,
                   lastInput>>

\* setAutoEstimateEnabled(v) that only sets the switch and renders
SetEnabledKeepsState(v, totalSupplyKW, totalDemandKW) ==
    /\ autoEst.calls < MaxEvals
    /\ autoEst' = InferDemandKW([autoEst EXCEPT !.enabled = v,
                                                !.toggledAt = autoEst.calls + 1],
                                totalSupplyKW, totalDemandKW)
    /\ UNCHANGED <<manager, discovery, graph, tmCaps, tmPc, tmResp, estimated, panel,
                   lastInput>>

\* setAutoEstimateEnabled(v): the inference starts over, and the table is
\* rendered again; toggledAt is the number of the inferDemandKW call it makes
SetAutoEstimateEnabled(v, totalSupplyKW, totalDemandKW) ==
    /\ autoEst.calls < MaxEvals
    /\ autoEst' = InferDemandKW([autoEst EXCEPT !.enabled = v,
                                                !.lastSupplyKW = Null,
                                                !.demandKW = Null,
                                                !.updatedAt = 0,
                                                !.toggledAt = autoEst.calls + 1],
                                totalSupplyKW, totalDemandKW)
    /\ UNCHANGED <<manager, discovery, graph, tmCaps, tmPc, tmResp, estimated, panel,
                   lastInput>>

\* the input handlers of the tuning fields: alpha in twentieths, maxStepKW in
\* thousandths, then the table is rendered again
SetAutoEstAlpha(v, totalSupplyKW, totalDemandKW) ==
    /\ autoEst.calls < MaxEvals
    /\ autoEst' = InferDemandKW([autoEst EXCEPT !.alpha = Max2(1, Min2(19, v))],
                                totalSupplyKW, totalDemandKW)
    /\ UNCHANGED <<manager, discovery, graph, tmCaps, tmPc, tmResp, estimated, panel,
                   lastInput>>

SetAutoEstMaxStep(v, totalSupplyKW, totalDemandKW) ==
    /\ autoEst.calls < MaxEvals
    /\ autoEst' = InferDemandKW([autoEst EXCEPT !.maxStepKW = Max2(100, Min2(20000, v))],
                                totalSupplyKW, totalDemandKW)
    /\ UNCHANGED <<manager, discovery, graph, tmCaps, tmPc, tmResp, estimated, panel,
                   lastInput>>

\* the totals the table can show: a supply that is no number, none, a negative
\* one, 5 kW and 10 kW; a demand of -1, 0, 5 and 7 kW
Supplies == {Null, Num(0), Num(0 - 1000), Num(5000), Num(10000)}
Demands == {Num(0 - 1000), Num(0), Num(5000), Num(7000)}
Alphas == {0, 7, 10}
MaxSteps == {0, 1000, 5000}

InitInfer ==
    /\ ManagerInit /\ resultModal
    /\ gcScript = IdleScript /\ DiscoveryIdle /\ TelemetryIdle
    /\ devName = [d \in DeviceIds |-> DefaultNames[(d % 3) + 1]]
    /\ powerEst = [d \in DeviceIds |-> Null]
    /\ GraphIdle
    /\ autoEst \in {AutoEstInit(e, 7, 1000) : e \in BOOLEAN}
    /\ estimated = NoEstimateCall
    /\ lastInput = NoInput
    /\ metricsPaused = FALSE            \* initMetricsPauseBtn
    /\ FilterIdle

NextInfer ==
    \/ \E s \in Supplies, m \in Demands : RenderMetrics(s, m)
    \/ \E s \in Supplies, m \in Demands : SetAutoEstimateEnabled(~autoEst.enabled, s, m)
    \/ \E v \in Alphas, s \in Supplies, m \in Demands : SetAutoEstAlpha(v, s, m)
    \/ \E v \in MaxSteps, s \in Supplies, m \in Demands : SetAutoEstMaxStep(v, s, m)

SpecInfer == InitInfer /\ [][NextInfer]_vars

\* computeEstimatedKW(deviceInfo, metric), called once on the arguments drawn
ComputeEstimatedKWCall ==
    /\ ~estimated.done
    /\ estimated' = [estimated EXCEPT
                        !.done = TRUE,
                        !.result = ComputeEstimatedKW(estimated.preferManual,
                                                      estimated.info, estimated.est,
                                                      estimated.metric)]
    /\ UNCHANGED <<manager, discovery, graph, tmCaps, tmPc, tmResp, autoEst,
                   lastInput, panel>>

\* what is stored for a board: a rating of 1500 W or a capacity of 2 kW, absent,
\* negative or no number; a fraction that is absent, no number, or below, in or
\* above the range clamp01 keeps
Ratings == {Missing, NotANumber, Given(0 - 1000), Given(0), Given(1500000)}
Capacities == {Missing, Given(0 - 1000), Given(2000)}
Fractions == {Missing, NotANumber, Given(0 - 500), Given(500), Given(1500)}
StoredEstimates ==
    {[ratedW |-> r, utilization |-> u, capacityKW |-> c, availability |-> u] :
        r \in Ratings, u \in Fractions, c \in Capacities}
MetricArgs ==
    {[present |-> FALSE, kw |-> Null], [present |-> TRUE, kw |-> Null],
     [present |-> TRUE, kw |-> Num(1200)]}

InitEstimated ==
    /\ ManagerInit /\ resultModal
    /\ gcScript = IdleScript /\ DiscoveryIdle /\ TelemetryIdle
    /\ devName = [d \in DeviceIds |-> DefaultNames[(d % 3) + 1]]
    /\ powerEst = [d \in DeviceIds |-> Null]
    /\ GraphIdle
    /\ autoEst = AutoEstInit(FALSE, 7, 1000)
    /\ lastInput = NoInput
    /\ metricsPaused = FALSE
    /\ FilterIdle
    /\ estimated \in {[NoEstimateCall EXCEPT !.preferManual = pm, !.info = t,
                                              !.est = e, !.metric = m] :
                          pm \in BOOLEAN, t \in {"consumer", "provider", ""},
                          e \in StoredEstimates, m \in MetricArgs}

NextEstimated == ComputeEstimatedKWCall

SpecEstimated == InitEstimated /\ [][NextEstimated]_vars

\* --------------------------------------------------------- filter actions
\* one filterMetricValue call
FilterMetricValueCall(deviceId, field, newValue) ==
    /\ filtered.calls < MaxFilterCalls
    /\ LET r == FilterMetricValue(metricsHistory, deviceId, field, newValue)
       IN  /\ metricsHistory' = r.history
           /\ filtered' = [op |-> "filterMetricValue", deviceId |-> deviceId,
                           field |-> field, value |-> newValue,
                           returned |-> r.returned, calls |-> filtered.calls + 1]
    /\ UNCHANGED <<manager, discovery, graph, tmCaps, tmPc, tmResp, autoEst, estimated,
                   metricsPaused, lastInput>>

\* clearMetricsHistory(deviceId), and clearMetricsHistory() when all is true
ClearMetricsHistory(all, deviceId) ==
    /\ metricsHistory' = IF all THEN <<>>
                         ELSE [k \in DOMAIN metricsHistory \ {deviceId} |->
                                 metricsHistory[k]]
    /\ filtered' = [filtered EXCEPT !.op = "clearMetricsHistory",
                                    !.deviceId = deviceId, !.field = "",
                                    !.value = Null, !.returned = Null]
    /\ UNCHANGED <<manager, discovery, graph, tmCaps, tmPc, tmResp, autoEst, estimated,
                   metricsPaused, lastInput>>

\* the readings handed to the filter: none, -5, 100 and 400, for two devices
FilterValues == {Null, Num(0 - 5000), Num(100000), Num(400000)}
FilterDevices == {0, 1}

NextFilter ==
    \/ \E d \in FilterDevices, f \in Fields, v \in FilterValues :
          FilterMetricValueCall(d, f, v)
    \/ \E all \in BOOLEAN, d \in FilterDevices : ClearMetricsHistory(all, d)

SpecFilter == InitPoll /\ [][NextFilter]_vars

\* ------------------------------------------------------------------ claims
Calls == 1..Len(calls)
Queued == {i \in Calls : calls[i].kind # "blocked"}
SameDevice(i, j) == calls[i].deviceId = calls[j].deviceId
OutBy(i) == SelectSeq(out[calls[i].deviceId], LAMBDA e : e.by = i)
ReadsBy(i) == SelectSeq(inp[calls[i].deviceId], LAMBDA e : e.by = i)
LogOf(i) == SelectSeq(commandLog, LAMBDA e : e.inv = i)

\* C1: for every device id, at most one task enqueued through
\* enqueueDeviceCommand for that id is executing at any time.
C1_OneTaskPerDevice ==
    \A d \in DeviceIds :
        Cardinality({i \in Queued : calls[i].deviceId = d /\ calls[i].state = "running"}) <= 1

\* C1 witness: a task is executing while a later one for the same device waits
C1_Witness ==
    \E i, j \in Queued :
        /\ i < j /\ SameDevice(i, j)
        /\ calls[i].state = "running" /\ calls[j].state = "pending"

\* C2: tasks of one device start in enqueue order, and a task has started only
\* if every task enqueued before it for that device has settled.
C2_StartAfterEarlierSettled ==
    \A i, j \in Queued :
        (i < j /\ SameDevice(i, j) /\ calls[j].ran) => calls[i].state \in Settled

\* C2 witness: the second task of a device is executing after the first settled
C2_Witness ==
    \E i, j \in Queued :
        /\ i < j /\ SameDevice(i, j)
        /\ calls[i].ran /\ calls[i].state \in Settled /\ calls[j].state = "running"

\* C3: a failed task does not stop later tasks of its device (a task waits only
\* while an earlier task of its device is unsettled, and none settles without
\* having run), and a promise rejects exactly for the caller whose task threw.
C3_FailureIsolatedToCaller ==
    \A j \in Queued :
        /\ calls[j].state = "rejected" => (calls[j].fails /\ calls[j].ran)
        /\ (calls[j].fails /\ calls[j].state \in Settled) => calls[j].state = "rejected"
        /\ calls[j].state \in Settled => calls[j].ran
        /\ calls[j].state = "pending" =>
              \E i \in Queued : i < j /\ SameDevice(i, j) /\ calls[i].state \notin Settled

\* C3 witness: a task was rejected and a later task of the same device has run
C3_Witness ==
    \E i, j \in Queued :
        /\ i < j /\ SameDevice(i, j)
        /\ calls[i].state = "rejected" /\ calls[j].ran

\* C4: tasks of distinct devices never wait on each other: a task is chained
\* only behind a task of its own device, so what it waits for, and whether it is
\* rejected, depends on its own device's tasks alone.
C4_DevicesIndependent ==
    \A j \in Queued :
        /\ calls[j].prev # 0 => calls[calls[j].prev].deviceId = calls[j].deviceId
        /\ calls[j].state = "pending" =>
              (calls[j].prev # 0 /\ calls[calls[j].prev].state \notin Settled)
        /\ calls[j].state = "rejected" => calls[j].fails

\* C4 witness: a task of one device is still executing while a task enqueued
\* later for another device has already settled
C4_Witness ==
    \E i, j \in Queued :
        /\ i < j /\ ~SameDevice(i, j)
        /\ calls[i].state = "running" /\ calls[j].state \in Settled /\ calls[j].ran

\* the command names of CmdNames that start with "set" in some letter case
SetNamesAnyCase == {setLoad, SetLoadCap}

\* C5: executeCommand on a connected device while the safety flag is true, with
\* a name starting with "set" in any letter case: nothing is written, nothing is
\* enqueued, the device status becomes BLOCKED and one log entry with a
\* non-empty error is recorded.
C5_SafeModeBlocksSet ==
    [][ (/\ Len(calls') = Len(calls) + 1
         /\ calls'[Len(calls')].kind # "task"
         /\ safeModeEnabled
         /\ calls'[Len(calls')].cmdName \in SetNamesAnyCase)
        => LET c == calls'[Len(calls')]
           IN  /\ out' = out /\ inp' = inp
               /\ deviceQueues' = deviceQueues
               /\ c.kind = "blocked"
               /\ lastStatus'[c.deviceId] = "BLOCKED"
               /\ Len(commandLog') = Len(commandLog) + 1
               /\ commandLog'[Len(commandLog')].inv = Len(calls')
               /\ commandLog'[Len(commandLog')].command = c.cmdName
               /\ commandLog'[Len(commandLog')].error # NoError ]_vars

\* C5 witness: a mixed-case set command was blocked
C5_Witness ==
    \E i \in Calls :
        /\ calls[i].kind = "blocked" /\ calls[i].cmdName = SetLoadCap
        /\ lastStatus[calls[i].deviceId] = "BLOCKED"
        /\ Len(LogOf(i)) = 1

\* C6: the safety flag is checked before every dispatch: the name line of a
\* set* command is never written to a transport while the safety flag is true,
\* also for a command that was enqueued while the flag was false.
C6_NoSetDispatchWhileSafe ==
    [][ \A d \in DeviceIds :
          \A k \in (Len(out[d]) + 1)..Len(out'[d]) :
             (out'[d][k].cmd \in SetNamesAnyCase /\ out'[d][k].line = out'[d][k].cmd)
                => ~safeModeEnabled ]_vars

\* C8: every executeCommand invocation on a connected device has exactly one
\* command-log entry once it has settled, and never more than one.
C8_OneLogEntryPerInvocation ==
    \A i \in Calls :
        calls[i].kind # "task" =>
            /\ Len(LogOf(i)) <= 1
            /\ calls[i].state \in Settled => Len(LogOf(i)) = 1

\* C8 witness: one invocation ended cancelled at the prompt and another timed out
C8_Witness ==
    \E i, j \in Calls :
        /\ calls[i].state \in Settled /\ calls[j].state \in Settled
        /\ Len(LogOf(i)) = 1 /\ LogOf(i)[1].error.kind = "cancelled"
        /\ Len(LogOf(j)) = 1 /\ LogOf(j)[1].error.kind = "timeout"

\* C9: executing a name that is not in the device's catalog writes no outbound
\* line and reads no inbound line, with or without an explicit argument list.
C9_UnknownCommandNoIO ==
    \A i \in Calls :
        calls[i].cmdName \notin DOMAIN cmds[calls[i].deviceId] =>
            (OutBy(i) = <<>> /\ ReadsBy(i) = <<>>)

Registered00(i) ==
    /\ calls[i].cmdName \in DOMAIN cmds[calls[i].deviceId]
    /\ cmds[calls[i].deviceId][calls[i].cmdName] = Cmd(0, 0)

\* C10: call on a registered command of arity (0,0) writes exactly one line,
\* the bare name, reads no line and returns null.
C10_CallZeroArity ==
    \A i \in Calls :
        (calls[i].kind = "command" /\ calls[i].path = "call" /\ Registered00(i)) =>
            /\ OutBy(i) = <<[line |-> calls[i].cmdName, by |-> i, cmd |-> calls[i].cmdName]>>
            /\ ReadsBy(i) = <<>>
            /\ calls[i].data = <<>>
            /\ \A k \in 1..Len(LogOf(i)) :
                  LogOf(i)[k].error = NoError => LogOf(i)[k].result.text = "sent (no payload)"

\* C10 witness: such a call has returned and was logged as sent without payload
C10_Witness ==
    \E i \in Calls :
        /\ calls[i].kind = "command" /\ calls[i].path = "call" /\ Registered00(i)
        /\ calls[i].state = "fulfilled"
        /\ Len(LogOf(i)) = 1 /\ LogOf(i)[1].result.text = "sent (no payload)"

\* a sweep's call on d has written its name and still has lines to read
PollBusy(d) ==
    \E s \in 1..Len(sweeps) :
        sweeps[s].pc = "call" /\ Head(sweeps[s].devs) = d /\ sweeps[s].toRead > 0

\* a command run by executeCommand on d has written its name and still has
\* lines to write or to read
CmdBusy(d) ==
    \E i \in Calls :
        /\ calls[i].kind = "command" /\ calls[i].state = "running"
        /\ calls[i].deviceId = d
        /\ (calls[i].sends # <<>> \/ calls[i].toRead > 0)

\* C7: on any one device a poller call (its send and its reads) never overlaps
\* the send/read sequence of a command run by executeCommand: no command line is
\* written or read while a poller call is under way, and no poller line while a
\* command is.
C7_PollerNeverOverlapsCommand ==
    [][ \A d \in DeviceIds :
          /\ ( \/ \E k \in (Len(out[d]) + 1)..Len(out'[d]) : out'[d][k].by > 0
               \/ \E k \in (Len(inp[d]) + 1)..Len(inp'[d]) : inp'[d][k].by > 0 )
             => ~PollBusy(d)
          /\ ( \/ \E k \in (Len(out[d]) + 1)..Len(out'[d]) : out'[d][k].by < 0
               \/ \E k \in (Len(inp[d]) + 1)..Len(inp'[d]) : inp'[d][k].by < 0 )
             => ~CmdBusy(d) ]_vars

\* the catalog entry of the command invocation i names
Entry(i) == cmds[calls[i].deviceId][calls[i].cmdName]
Registered(i) == calls[i].cmdName \in DOMAIN cmds[calls[i].deviceId]

\* invocation i ran a command and was logged without an error
LoggedOK(i) ==
    /\ calls[i].kind = "command" /\ calls[i].state = "fulfilled"
    /\ Len(LogOf(i)) = 1 /\ LogOf(i)[1].error = NoError

\* C11: invoking a registered command of arity (in, out) reads exactly out
\* inbound lines, not in + out; for arity (1,1) it writes exactly 2 lines (the
\* name, then the argument), reads exactly 1 line and returns a 1-element list.
C11_ReadsExactlyOutLines ==
    \A i \in Calls :
        (LoggedOK(i) /\ Registered(i)) =>
            /\ Len(ReadsBy(i)) = Entry(i).outArg
            /\ Entry(i) = Cmd(1, 1) =>
                  /\ Len(OutBy(i)) = 2 /\ OutBy(i)[1].line = calls[i].cmdName
                  /\ Len(calls[i].data) = 1

\* C12: a command that must read at least one output line, run against a device
\* that sends no line (every read of the invocation came back blank), is never
\* recorded as OK: its log entry carries an error.
C12_SilentDeviceNeverOK ==
    \A i \in Calls :
        ( /\ calls[i].kind = "command" /\ calls[i].state \in Settled
          /\ Registered(i) /\ Entry(i).outArg >= 1
          /\ ReadsBy(i) # <<>>
          /\ \A k \in 1..Len(ReadsBy(i)) : ReadsBy(i)[k].line = Blank )
        => (Len(LogOf(i)) = 1 /\ LogOf(i)[1].error # NoError)

\* getCommands has returned
Returned == gcPc \in {"setup", "done"}

\* the first n elements of s
Take(s, n) == SubSeq(s, 1, IF Len(s) < n THEN Len(s) ELSE n)
AllButLast(s) == SubSeq(s, 1, Len(s) - 1)

\* the non-empty lines of received that came before its first eoc
BeforeFirstEoc(received) ==
    LET ends == {k \in 1..Len(received) : received[k] = eoc}
    IN  IF ends = {} THEN received
        ELSE SubSeq(received, 1, Min(ends) - 1)
NonEmptyBeforeEoc(received) ==
    SelectSeq(BeforeFirstEoc(received), LAMBDA l : l # Blank)

\* C13: during discovery every recorded line is written back exactly once,
\* before the next read, and the line written back is the bare command name,
\* the signature without its >N and <M suffixes.
C13_EchoIsBareName ==
    gcPc # "idle" =>
        /\ Len(gcOut) = 1 + Len(gcLines)
        /\ \A k \in 1..Len(gcLines) : gcOut[k + 1] = BaseName(gcLines[k])

\* C14 as stated: the recorded lines are exactly the non-empty lines received
\* before the first eoc, in arrival order, up to the command limit.
C14_RecordsAllBeforeEoc ==
    Returned => gcLines = Take(NonEmptyBeforeEoc(gcIn), maxCommands)

\* the last read returned when the overall deadline had passed
ReadAfterDeadline == Returned /\ gcNow >= timeoutMs

\* C14 amended: the recorded lines are the non-empty lines received before the
\* first eoc, in arrival order, up to the command limit, not counting a line
\* whose read returned after the overall deadline had passed; a blank read is
\* never recorded or echoed, and eoc is never recorded, never echoed and never
\* a catalog entry.
C14_RecordsBeforeEocInTime ==
    /\ gcLines = Take(NonEmptyBeforeEoc(IF ReadAfterDeadline
                                        THEN AllButLast(gcIn) ELSE gcIn),
                      maxCommands)
    /\ \A k \in 1..Len(gcLines) : gcLines[k] # Blank /\ gcLines[k] # eoc
    /\ \A k \in 2..Len(gcOut) : gcOut[k] # Blank /\ gcOut[k] # eoc
    /\ eoc \notin DOMAIN gcCmds.at /\ Blank \notin DOMAIN gcCmds.at

\* C14 witness: discovery ended at the deadline on a line it did not record,
\* after recording lines with blank reads between them
C14_Witness ==
    /\ ReadAfterDeadline
    /\ gcIn[Len(gcIn)] \in SigLines
    /\ gcLines # <<>>
    /\ \E k \in 1..Len(gcIn) : gcIn[k] = Blank
    /\ Len(NonEmptyBeforeEoc(gcIn)) = Len(gcLines) + 1

\* why getCommands left its loop
StoppedAtEoc == gcIn # <<>> /\ gcIn[Len(gcIn)] = eoc
StoppedAtCeiling == gcBlankStreak >= maxBlankStreak
StoppedAtLimit == Len(gcLines) >= maxCommands
StoppedAtDeadline == gcNow >= timeoutMs

\* C15: discovery terminates for every device behaviour: it stops at eoc, at
\* the ceiling of consecutive blank reads, at the command limit or at the
\* overall deadline (no read is begun after the deadline, no more than
\* maxCommands lines are recorded and no more than maxBlankStreak blanks are
\* counted), and the catalog is then built from the lines collected so far.
C15_DiscoveryTerminates ==
    /\ <>(gcPc = "done")
    /\ [](/\ Len(gcLines) <= maxCommands
          /\ gcBlankStreak <= maxBlankStreak
          /\ gcPc = "read" => gcNow < timeoutMs + BlankSleepMs
          /\ Returned =>
                StoppedAtEoc \/ StoppedAtCeiling \/ StoppedAtLimit \/ StoppedAtDeadline
          /\ gcPc = "done" =>
                DOMAIN gcCmds.at = {ParseCommand(gcLines[k]).command :
                                   k \in 1..Len(gcLines)})

\* C15 witness: discovery of a board that never sends eoc ended at the command
\* limit with a catalog
C15_Witness ==
    /\ gcPc = "done" /\ StoppedAtLimit
    /\ ~StoppedAtEoc /\ ~StoppedAtDeadline
    /\ gcCmds.order # <<>>

\* the arities a signature line name[>N][<M] announces
Announced(line) ==
    LET o == OptCount(line, Len(BaseName(line)), ">")
        n == OptCount(line, o.end, "<")
    IN  Cmd(n.n, o.n)

\* C16: for every recorded signature line name[>N][<M], the catalog has an
\* entry under the full base name (digits allowed after the first character)
\* with output arity N and input arity M, 0 when omitted, and the raw signature
\* is kept for display.
C16_SignatureRegistered ==
    gcPc = "done" =>
        \A k \in 1..Len(gcLines) :
            LET base == BaseName(gcLines[k])
            IN  /\ base \in DOMAIN gcCmds.at
                /\ gcCmds.at[base] = Announced(gcLines[k])
                /\ base \in DOMAIN CommandSignatures(gcCmds)
                /\ CommandSignatures(gcCmds)[base] = gcLines[k]

\* the samples refreshLiveMetrics has stored
Stored == {metrics[d] : d \in DOMAIN metrics}
InVolts(milli) == 0 <= milli /\ milli <= 1000 * 1000
InKw(milli) == 0 - 1000 * 1000 <= milli /\ milli <= 1000 * 1000

\* C17: every stored telemetry sample has a sanitized voltage that is null or
\* within [0, 1000] and a sanitized power that is null or within [-1000, 1000];
\* a raw value within the range, the boundaries included, is stored as it is
\* and a raw value outside the range is stored as null.
C17_SanitizedWithinBounds ==
    \A m \in Stored :
        /\ m.volts.null \/ InVolts(m.volts.milli)
        /\ m.kw.null \/ InKw(m.kw.milli)
        /\ m.volts = (IF ~m.rawVolts.null /\ InVolts(m.rawVolts.milli)
                      THEN m.rawVolts ELSE Null)
        /\ m.kw = (IF ~m.rawKw.null /\ InKw(m.rawKw.milli) THEN m.rawKw ELSE Null)

\* C17 witness: a stored sample whose voltage is the boundary 1000, accepted,
\* and whose power -1000.001 was outside the range and is stored as null
C17_Witness ==
    \E m \in Stored :
        /\ m.rawVolts = Num(1000 * 1000) /\ m.volts = m.rawVolts
        /\ m.rawKw = Num(0 - 1000001) /\ m.kw = Null

\* the positions of es that hold an edge between two devices of ids and are
\* the first with their ordered (from, to) pair
KeptEdges(es, ids) ==
    {k \in 1..Len(es) :
        /\ es[k].fromId \in ids /\ es[k].toId \in ids
        /\ \A j \in 1..(k - 1) :
              ~(es[j].fromId = es[k].fromId /\ es[j].toId = es[k].toId)}

\* result is es restricted to the positions kept, in the order of es
IsSubsequenceAt(result, es, kept) ==
    /\ Len(result) = Cardinality(kept)
    /\ \A k \in kept : result[Cardinality({j \in kept : j <= k})] = es[k]

\* C18: normalizeConnections replaces the edge list by the subsequence of its
\* edges whose two endpoints are both in the device set (available or
\* connected), keeping of each ordered (from, to) pair only the first
\* occurrence, with the kw of that occurrence, in the order they had.
C18_NormalizeKeepsFirstOccurrences ==
    [][IsSubsequenceAt(connections', connections,
                       KeptEdges(connections,
                                 ExistingIds(connectedDevices', availableDevices')))]_vars

\* C18 witness: from a list with a repeated pair, an edge to a board that is
\* gone and two other edges, the first occurrence and the others are left, in order
C18_Witness ==
    /\ connStored = <<Edge(GetConnDiagramId(0), GetConnDiagramId(1), Num(2000)),
                      Edge(GetConnDiagramId(0), StaleId, Num(1000)),
                      Edge(GetConnDiagramId(0), GetConnDiagramId(1), Null)>>
    /\ connections = <<Edge(GetConnDiagramId(0), GetConnDiagramId(1), Num(2000))>>
\* no ordered pair (fromId, toId) is on more than one edge
NoDuplicateEdges(es) ==
    \A i, j \in 1..Len(es) :
        (es[i].fromId = es[j].fromId /\ es[i].toId = es[j].toId) => i = j

\* C19: whatever the operator does in the diagram (connect, clear, edit, remove,
\* route the surplus, apply demand requests with their auto-connect), and
\* whichever board is moved or unplugged, this.connections and the list saved
\* hold at most one edge per ordered pair (fromId, toId)
C19_AtMostOneEdgePerPair ==
    NoDuplicateEdges(connections) /\ NoDuplicateEdges(connStored)

\* the surplus was routed to the CVT and a demand request auto-connected the
\* house load: the generator has one edge to each
C19_Witness ==
    /\ Len(connections) = 2
    /\ HasEdge(connections, GetConnDiagramId(Generator), GetConnDiagramId(1))
    /\ HasEdge(connections, GetConnDiagramId(Generator), GetConnDiagramId(2))
    /\ \E k \in 1..2 : connections[k].kw = Num(2500)
    /\ \E k \in 1..2 : connections[k].kw = Num(10000)

\* the sum of the estimates of the boards in S that have one
RECURSIVE SumEst(_)
SumEst(S) ==
    IF S = {} THEN 0
    ELSE LET d == CHOOSE x \in S : TRUE
         IN  (IF powerEst[d].null THEN 0 ELSE powerEst[d].milli) + SumEst(S \ {d})

\* the boards of the diagram, connected or not
Boards == {All[k] : k \in 1..Len(All)}

\* r is x rounded to 2 decimals, both in thousandths
IsRounded2(r, x) == r % 10 = 0 /\ 2 * Abs(r - x) <= 10

\* the step showed a new Mode 2 computation on the status line
Mode2Computed == mode2'.report # mode2.report /\ mode2'.report.set

\* C20: when Mode 2 computes, demandKW is the sum of kw over the edges,
\* otherSupplyKW the sum of the estimates of the providers that are not
\* generators, wired or not, and the target is max(0, demandKW - otherSupplyKW),
\* clamped to the generator's estimate where it has one, rounded to 2 decimals
C20_Mode2Target ==
    [][Mode2Computed =>
        LET r == mode2'.report
            other == SumEst({d \in Boards : /\ DeviceType(devName[d]) = "provider"
                                            /\ ~IsGenerator(devName[d])})
            deficit == Max2(0, SumKW(connections') - other)
            cap == powerEst[Generator]
        IN  /\ r.demandKW = SumKW(connections')
            /\ r.otherSupplyKW = other
            /\ IsRounded2(r.targetKW, IF cap.null THEN deficit
                                       ELSE Min2(deficit, cap.milli))]_vars

\* demand 10 kW, other supply 4 kW and a generator of 3 kW: the target is 3.00
C20_Witness ==
    /\ powerEst[Generator] = Num(3000)
    /\ mode2.report = [set |-> TRUE, demandKW |-> 10000, otherSupplyKW |-> 4000,
                       targetKW |-> 3000, notice |-> ""]

\* the generators Mode 2 may drive, in the order of connectedDevices
Gens == ConnectedGenerators(connectedDevices, devName, cmds)

\* the step enqueued a setLoad for a generator
Mode2Dispatched ==
    /\ Len(calls') = Len(calls) + 1
    /\ calls'[Len(calls')].cmdName = setLoad
    /\ IsGenerator(devName[calls'[Len(calls')].deviceId])

\* the target the step computed is less than 0.01 kW away from the target last
\* applied to the same generator
NearLastApplied ==
    /\ ConnMode2LastApplied.set
    /\ ConnMode2LastApplied.genId = Gens[1]
    /\ Abs(ConnMode2LastApplied.targetKW - mode2'.report.targetKW) < 10

\* C21: with safe mode off, a Mode 2 run that computes a target dispatches a
\* setLoad unless the target is less than 0.01 kW away from the last applied
\* target of the same generator, and dispatches none in that case
C21_DispatchUnlessNearLast ==
    [][(Mode2Computed /\ ~safeModeEnabled) => (Mode2Dispatched <=> ~NearLastApplied)]_vars

\* the setLoad calls for a generator that have not settled
Mode2Pending ==
    {i \in 1..Len(calls) : /\ calls[i].kind = "command"
                           /\ calls[i].cmdName = setLoad
                           /\ IsGenerator(devName[calls[i].deviceId])
                           /\ calls[i].state \notin Settled}

\* C22: while the setLoad of a Mode 2 run has not settled, no step (another
\* click, tick or demand request batch among them) enqueues a command or changes
\* the Mode 2 record and status line, and at most one such setLoad is pending
C22_OneMode2InFlight ==
    /\ [](Cardinality(Mode2Pending) <= 1)
    /\ [][Mode2Pending # {} => (Len(calls') = Len(calls) /\ mode2' = mode2)]_vars

\* setLoad 2.5 is pending when a demand request batch sets the edge to 10 kW and
\* runs Mode 2: the status line and the pending target are still those of 2.5
C22_Witness ==
    /\ Mode2Pending # {}
    /\ ConnMode2InFlight
    /\ mode2.pending.targetKW = 2500
    /\ mode2.report.targetKW = 2500
    /\ SumKW(connections) = 10000

\* the step applied a demand request batch: only a batch sets an edge to 10 kW
BatchApplied ==
    /\ connections' # connections
    /\ \E k \in 1..Len(connections') : connections'[k].kw = Num(10000)

\* the status line shows the computation for the edges as they are after the step
ReportsComputation ==
    /\ mode2'.report.set
    /\ mode2'.report.demandKW = SumKW(connections')
    /\ IsRounded2(mode2'.report.targetKW,
                  Max2(0, SumKW(connections') - mode2'.report.otherSupplyKW))

\* the step that shows a Mode 2 computation enqueues and writes nothing and
\* leaves the command log and the last applied target as they were
NothingDispatched ==
    /\ calls' = calls /\ out' = out /\ commandLog' = commandLog
    /\ deviceQueues' = deviceQueues
    /\ ConnMode2LastApplied' = ConnMode2LastApplied

\* C23 as stated: with safe mode on and a generator connected, every Mode 2 run
\* shows demand, other supply and target, and dispatches nothing
C23_SafeModeAlwaysReports ==
    [][(safeModeEnabled /\ Gens # <<>>) =>
         /\ BatchApplied => ReportsComputation
         /\ Mode2Computed => NothingDispatched]_vars

\* C23 amended: with safe mode on and a generator connected, a Mode 2 run that
\* is not held by the in-flight guard shows demand, other supply and target on
\* the status line, and a step that shows a Mode 2 computation enqueues and
\* writes nothing and leaves the command log and the last applied target as
\* they were
C23_SafeModeComputesOnly ==
    [][(safeModeEnabled /\ Gens # <<>>) =>
         /\ (BatchApplied /\ ~ConnMode2InFlight) => ReportsComputation
         /\ Mode2Computed => NothingDispatched]_vars

\* safe mode is on and the status line shows Mode 2 asking for 10 kW; nothing
\* was ever enqueued or logged
C23_Witness ==
    /\ safeModeEnabled
    /\ mode2.report.set /\ mode2.report.targetKW = 10000
    /\ calls = <<>> /\ commandLog = <<>>
    /\ ~ConnMode2LastApplied.set

\* the places in connectedDevices of the generators that have setLoad
GeneratorPlaces ==
    {k \in 1..Len(connectedDevices) :
        /\ IsGenerator(devName[connectedDevices[k]])
        /\ setLoad \in DOMAIN cmds[connectedDevices[k]]}

\* a board named generator is in the diagram, connected or not
GeneratorInDiagram == \E d \in Boards : IsGenerator(devName[d])

\* the step is a Mode 2 run: it applied a batch or changed the Mode 2 record
Mode2Ran == BatchApplied \/ mode2' # mode2

\* the status line and toast say that no generator can be driven, and why
ReportsNoGenerator ==
    /\ ~mode2'.report.set
    /\ mode2'.report.notice = IF GeneratorInDiagram THEN "generator not connected"
                              ELSE "no generator"

\* with several generators connected the run warns and drives the first one
DrivesFirstGenerator ==
    /\ Mode2Computed => mode2'.report.notice = "multiple generators"
    /\ Mode2Dispatched =>
           calls'[Len(calls')].deviceId = connectedDevices[Min(GeneratorPlaces)]

InferCalled == autoEst'.calls = autoEst.calls + 1

\* x kept between lo and hi
Clamp(x, lo, hi) == Max2(lo, Min2(hi, x))

\* C25: with inference on, a positive finite supply and a previous inferred
\* value p, the new value is p + alpha * clamp(max(manualDemand, totalSupply) - p,
\* -maxStepKW, +maxStepKW), so it moves by at most alpha * maxStepKW
C25_SmoothedBoundedStep ==
    [][(/\ InferCalled
        /\ autoEst.enabled /\ autoEst'.enabled
        /\ ~autoEst'.supply.null /\ autoEst'.supply.milli > 0
        /\ ~autoEst.demandKW.null) =>
       LET p == autoEst.demandKW.milli
           target == Max2(autoEst'.manual.milli, autoEst'.supply.milli) * Scale
           maxStepKW == autoEst'.maxStepKW * Scale
           move == autoEst'.demandKW.milli - p
       IN  /\ move = autoEst'.alpha * (Clamp(target - p, 0 - maxStepKW, maxStepKW) \div 20)
           /\ Abs(move) <= autoEst'.alpha * (maxStepKW \div 20)
           /\ autoEst'.returned = autoEst'.demandKW]_vars

\* with alpha 0.35 and maxStepKW 1.0 a supply of 10 kW moved the value from 5
\* to 5.35
C25_Witness ==
    /\ autoEst.alpha = 7 /\ autoEst.maxStepKW = 1000
    /\ autoEst.supply = Num(10000)
    /\ autoEst.returned = Num(5350 * Scale)

\* the state inferDemandKW found when it was called in this step: the handler
\* that switches inference on or off clears it first
InferredAtCall ==
    IF autoEst'.enabled # autoEst.enabled
    THEN [demandKW |-> Null, lastSupplyKW |-> Null, updatedAt |-> 0]
    ELSE [demandKW |-> autoEst.demandKW, lastSupplyKW |-> autoEst.lastSupplyKW,
          updatedAt |-> autoEst.updatedAt]

\* C26: inferDemandKW returns null and keeps the inferred value, the last supply
\* and the time of the last update whenever inference is off or the supply is no
\* finite number or is not greater than 0
C26_NullLeavesStateUnchanged ==
    [][(/\ InferCalled
        /\ \/ ~autoEst'.enabled
           \/ autoEst'.supply.null
           \/ autoEst'.supply.milli <= 0) =>
       /\ autoEst'.returned.null
       /\ [demandKW |-> autoEst'.demandKW, lastSupplyKW |-> autoEst'.lastSupplyKW,
           updatedAt |-> autoEst'.updatedAt] = InferredAtCall]_vars

\* a value of 5 kW was inferred, then a call with no supply returned null and
\* kept it
C26_Witness ==
    /\ autoEst.enabled
    /\ autoEst.supply = Num(0) /\ autoEst.returned.null
    /\ autoEst.demandKW = Num(5000 * Scale)
    /\ autoEst.lastSupplyKW = Num(5000)

\* the operator's estimate for the board of the call exists: a rating for a
\* Consumer, a capacity for a Provider
HasEstimate ==
    \/ estimated.info = "consumer" /\ IsValidKW(estimated.est.ratedW)
    \/ estimated.info = "provider" /\ IsValidKW(estimated.est.capacityKW)

\* ratedW * clamp01(utilization) / 1000, or capacityKW * clamp01(availability)
EstimateKW ==
    IF estimated.info = "consumer"
    THEN Num((estimated.est.ratedW.milli * Clamp01OrOne(estimated.est.utilization))
             \div 1000000)
    ELSE Num((estimated.est.capacityKW.milli * Clamp01OrOne(estimated.est.availability))
             \div 1000)

HasTelemetry == estimated.metric.present /\ ~estimated.metric.kw.null

FromEstimate == [kw |-> EstimateKW, source |-> "estimate"]
FromTelemetry == [kw |-> estimated.metric.kw, source |-> "telemetry"]

\* C27: computeEstimatedKW returns the preferred source when it exists, the
\* other one when it does not, and {kw: null, source: none} when neither does;
\* the estimate is ratedW * clamp01(utilization) / 1000 for a Consumer and
\* capacityKW * clamp01(availability) for a Provider, the fractions being 1 when
\* they are absent
C27_PreferredSourceThenOther ==
    estimated.done =>
        estimated.result =
            IF estimated.preferManual
            THEN IF HasEstimate THEN FromEstimate
                 ELSE IF HasTelemetry THEN FromTelemetry
                 ELSE [kw |-> Null, source |-> "none"]
            ELSE IF HasTelemetry THEN FromTelemetry
                 ELSE IF HasEstimate THEN FromEstimate
                 ELSE [kw |-> Null, source |-> "none"]

\* estimates are preferred: a Consumer rated 1500 W at half utilization is shown
\* at 0.75 kW although telemetry says 1.2 kW
C27_Witness ==
    /\ estimated.done /\ estimated.preferManual
    /\ estimated.info = "consumer"
    /\ estimated.est.ratedW = Given(1500000)
    /\ estimated.est.utilization = Given(500)
    /\ estimated.metric.kw = Num(1200)
    /\ estimated.result = [kw |-> Num(750), source |-> "estimate"]

\* sweep s has gone through its whole snapshot
SweepDone(s) == s \in 1..Len(sweeps) /\ sweeps[s].pc = "done"

\* a readResponse of a sweep came back empty on device d
SweepReadBlank(d) ==
    \E k \in 1..Len(inp[d]) : inp[d][k].by < 0 /\ inp[d][k].line = Blank

\* C28: a device that answers a sweep's read with nothing does not stop the
\* sweep: the sweep reaches its end, and then every device that is still
\* connected has the sample the sweep stored for it
C28_SweepReachesEveryDevice ==
    /\ [](\A s \in 1..MaxSweeps :
            SweepDone(s) => \A k \in 1..Len(connectedDevices) :
                               connectedDevices[k] \in DOMAIN metrics)
    /\ \A s \in 1..MaxSweeps : (s \in 1..Len(sweeps)) ~> SweepDone(s)

\* a sweep is over: one device read nothing and has a sample without a value,
\* and a device that comes after it in the snapshot has its sample too
C28_Witness ==
    /\ SweepDone(1)
    /\ \E k \in 1..Len(connectedDevices) : \E j \in 1..Len(connectedDevices) :
          /\ k < j
          /\ SweepReadBlank(connectedDevices[k])
          /\ connectedDevices[k] \in DOMAIN metrics
          /\ metrics[connectedDevices[k]].kw.null
          /\ connectedDevices[j] \in DOMAIN metrics

\* the step handled a value given to handler h that is no number or is negative
RejectedInput(h) ==
    /\ lastInput' # lastInput
    /\ lastInput'.handler = h
    /\ ~(lastInput'.value.kind = "number" /\ lastInput'.value.milli >= 0)

\* C29: an edge edited to a value that is no number or is negative leaves the
\* edge list as it was; setGeneratorLoad with such a value enqueues no command,
\* writes no line and leaves the last-sent-load record as it was
C29_MalformedInputMutatesNothing ==
    [][/\ RejectedInput("editConnectionKW") =>
              connections' = connections /\ connStored' = connStored
       /\ RejectedInput("setGeneratorLoad") =>
              /\ calls' = calls /\ deviceQueues' = deviceQueues
              /\ out' = out /\ commandLog' = commandLog
              /\ \A d \in DeviceIds :
                    LastSetLoadByDeviceId(d)' = LastSetLoadByDeviceId(d)]_vars

\* the generator was sent 3 kW and an edge is drawn; a negative load was then
\* refused: the record still says 3 and nothing more was written
C29_Witness ==
    /\ lastInput = [handler |-> "setGeneratorLoad", value |-> Given(0 - 1000),
                    toast |-> "Invalid generator load value"]
    /\ LastSetLoadByDeviceId(Generator) = <<"3">>
    /\ Len(calls) = 1
    /\ connections # <<>>

\* C30: a timed-out call keeps its queue slot: while transport work of a call
\* that timed out is still outstanding on a device, no later task of that device
\* has begun its own transport I/O
C30_TimedOutKeepsSlot ==
    \A o \in orphans :
        ~\E i \in 1..Len(calls) : InIO(i) /\ calls[i].deviceId = o.deviceId /\ i > o.by

\* the lines the step wrote to device d
NewLines(d) == {k \in 1..Len(out'[d]) : k > Len(out[d])}

\* C31: a command for a device that is not in the connected set does nothing:
\* an invocation that was enqueued and had not started when its device left
\* the connected set writes no line to the device
C31_NoIOAfterDeviceLeft ==
    [][\A d \in DeviceIds : \A k \in NewLines(d) :
          LET i == out'[d][k].by
          IN  (i \in 1..Len(calls) /\ ~calls[i].ran) => Has(connectedDevices, d)]_vars

\* the edges of the list whose two ends are devices of the boards
LiveEdges(es, conn, avail) ==
    SelectSeq(es, LAMBDA e : /\ e.fromId \in ExistingIds(conn, avail)
                             /\ e.toId \in ExistingIds(conn, avail))

\* C32: whenever Mode 2 computes demandKW, the sum has no share of an edge
\* that references a device absent from the device set: it is the sum over the
\* edges between devices that are there, and the list it read has no other edge
C32_Mode2SumsLiveEdges ==
    [][(mode2' # mode2 /\ mode2'.report.set) =>
          /\ connections' = LiveEdges(connections', connectedDevices', availableDevices')
          /\ mode2'.report.demandKW =
                SumKW(LiveEdges(connections', connectedDevices', availableDevices'))]_vars

\* Mode 2 drove the first generator for a demand above zero, that generator
\* was unplugged, and the next run, for the other generator, summed no demand
C32_Witness ==
    /\ \E i \in 1..Len(calls) : /\ calls[i].deviceId = Generator
                                 /\ calls[i].cmdName = setLoad
                                 /\ calls[i].optArgs.list # <<"0">>
    /\ ~Has(All, Generator)
    /\ mode2.report.set
    /\ mode2.report.demandKW = 0
    /\ \E i \in 1..Len(calls) : calls[i].deviceId # Generator

\* C33: while the operator has telemetry polling paused, no polling timer is
\* active, whatever was done since the pause
C33_PausedHasNoTimer == metricsPaused => ~metricsIntervalId

\* the step is a setAutoEstimateEnabled
Toggled == autoEst'.toggledAt = autoEst'.calls /\ InferCalled

\* max(manualDemand, totalSupply) of the call made in this step
RawTarget ==
    Max2(IF autoEst'.manual.null THEN 0 ELSE autoEst'.manual.milli,
         autoEst'.supply.milli) * Scale

\* C34: every enable/disable toggle of demand inference clears its state, so
\* the first inference after enabling, made by the toggle or by a later
\* render, returns exactly max(manualDemand, totalSupply): a toggle that
\* infers nothing leaves no inferred value, last supply or update time behind,
\* and an inference that finds no inferred value returns the maximum
C34_ToggleStartsOver ==
    [][InferCalled =>
         /\ (Toggled /\ autoEst'.returned.null) =>
                /\ autoEst'.demandKW.null /\ autoEst'.lastSupplyKW.null
                /\ autoEst'.updatedAt = 0
         /\ (~autoEst'.returned.null /\ (Toggled \/ autoEst.demandKW.null)) =>
                /\ autoEst'.returned = Num(RawTarget)
                /\ autoEst'.demandKW = Num(RawTarget)]_vars

\* the third inferDemandKW call was made by switching inference on with a
\* supply of 10 kW and a demand of 5 kW, and returned 10 kW
C34_Witness ==
    /\ autoEst.enabled
    /\ autoEst.calls = 3 /\ autoEst.toggledAt = 3
    /\ autoEst.supply = Num(10000) /\ autoEst.manual = Num(5000)
    /\ autoEst.returned = Num(10000 * Scale)

\* filterMetricValue was called in this step, with a number
FilterCalled == filtered'.calls = filtered.calls + 1 /\ ~filtered'.value.null

\* the history of field f of device d in the Map h
Arr(h, d, f) == IF d \in DOMAIN h THEN h[d][f] ELSE <<>>

\* the last metricsHistorySize values of q
LastValues(q) ==
    IF Len(q) <= 5 THEN q ELSE SubSeq(q, Len(q) - 4, Len(q))

\* C35: each per-device per-field history holds at most 5 values, the most
\* recently accepted ones in the order they were accepted: a call either
\* accepts its reading, appends it and returns it, or rejects it, leaves the
\* history as it was and returns the last accepted value; no other history
\* changes; a negative voltage is never accepted or returned; clearing empties
\* the history
C35_HistoryOfAccepted ==
    [][/\ \A d \in DeviceIds, f \in Fields : Len(Arr(metricsHistory', d, f)) <= 5
       /\ \A d \in DeviceIds :
             \A k \in 1..Len(Arr(metricsHistory', d, "volts")) :
                Arr(metricsHistory', d, "volts")[k] >= 0
       /\ FilterCalled =>
             LET d == filtered'.deviceId
                 f == filtered'.field
                 v == filtered'.value
                 was == Arr(metricsHistory, d, f)
                 is == Arr(metricsHistory', d, f)
             IN  /\ \/ is = LastValues(Append(was, v.milli)) /\ filtered'.returned = v
                    \/ /\ is = was /\ was # <<>>
                       /\ filtered'.returned = Num(was[Len(was)])
                 /\ f = "volts" => filtered'.returned.milli >= 0
                 /\ \A e \in DeviceIds, g \in Fields :
                       (e # d \/ g # f) =>
                          Arr(metricsHistory', e, g) = Arr(metricsHistory, e, g)
       /\ (filtered'.op = "clearMetricsHistory" /\ filtered' # filtered) =>
             \A f \in Fields : Arr(metricsHistory', filtered'.deviceId, f) = <<>>]_vars

AutoTarget ==
    Round2(TargetKW(ComputeMode2TargetKW(connections, All, devName, powerEst).deficitKW,
                    powerEst[Gens[1]]))

\* a generator is connected, the target differs by at least 0.01 kW from the
\* target last applied to it, and a call can still be made
TargetDiffers ==
    /\ Gens # <<>> /\ ~safeModeEnabled /\ Len(calls) < MaxCalls
    /\ \/ ~ConnMode2LastApplied.set
       \/ ConnMode2LastApplied.genId # Gens[1]
       \/ Abs(ConnMode2LastApplied.targetKW - AutoTarget) >= 10

\* a setLoad carrying the target has been enqueued for the generator
TargetDispatched ==
    \E i \in 1..Len(calls) :
       /\ calls[i].deviceId = Gens[1] /\ calls[i].cmdName = setLoad
       /\ calls[i].optArgs = [given |-> TRUE, list |-> <<NumberString(AutoTarget)>>]

\* C37: with the auto loop on, safe mode off and a generator connected, once
\* the target differs by at least 0.01 kW from the last applied one and the
\* inputs stay as they are from some point on, a setLoad carrying that target
\* is eventually dispatched; and the in-flight guard, once set, is eventually
\* cleared
C37_TargetEventuallyDispatched ==
    /\ (<>[][connections' = connections]_vars)
          => (TargetDiffers ~> (TargetDispatched \/ ~TargetDiffers))
    /\ ConnMode2InFlight ~> ~ConnMode2InFlight

\* no task of the device is executing or waiting in its queue
DeviceQuiet(d) ==
    \A i \in 1..Len(calls) :
       calls[i].deviceId = d => calls[i].state \notin {"pending", "running"}

\* C38: whenever no task for a device is executing or queued, the device's
\* status is OK, TIMEOUT, ERROR or BLOCKED (or still empty when no command
\* was ever invoked on it) and never RUNNING
C38_QuietDeviceNotRunning ==
    \A d \in DeviceIds :
       DeviceQuiet(d) => lastStatus[d] \in {"", "OK", "TIMEOUT", "ERROR", "BLOCKED"}

\* the sweeps that have started and not yet returned
SweepsInProgress == {s \in 1..Len(sweeps) : sweeps[s].pc # "done"}

\* C39: at most one sweep of refreshLiveMetrics is in progress at any time
C39_OneSweepInProgress == Cardinality(SweepsInProgress) <= 1

\* C40: an edge of the stored list that was loaded is in the edge set, with
\* its kw, once both its endpoint devices have been discovered again under
\* the same ids
C40_StoredEdgesSurviveRestart ==
    \A k \in 1..Len(connLoaded) :
       (/\ connLoaded[k].fromId \in ExistingIds(connectedDevices, availableDevices)
        /\ connLoaded[k].toId \in ExistingIds(connectedDevices, availableDevices))
          => \E j \in 1..Len(connections) : connections[j] = connLoaded[k]

====
